---------------------------- MODULE Spec2Model ----------------------------
(***************************************************************************)
(* Signature and timestamp detection of pdf-info (package main):           *)
(* main -> AnalyzePDF -> getFileInfo, analyzePDFCPU (ReadContextFile,      *)
(* analyzeDigitalSignatures), analyzeLedongthuc -> PrintReport.            *)
(*                                                                         *)
(* Go strings that are computed from the file's bytes are sequences of     *)
(* one-character strings (the byte 0 is written "NUL"); Go strings that    *)
(* are only ever assigned from literals (Status, Type, TimestampType,      *)
(* TimestampStatus) are TLA+ strings.                                      *)
(***************************************************************************)
EXTENDS Integers, Sequences, FiniteSets, TLC

(***************************************************************************)
(* Bounds of the exploration.                                              *)
(***************************************************************************)
\* number of fragments a file's content is assembled from
MaxFrags == 3
\* number of results the validation service returns
MaxResults == 2
\* calls of AnalyzePDF made with one PDFAnalyzer
MaxCalls == 3

(***************************************************************************)
(* package strings, on sequences of characters.  Offsets are Go's: the     *)
(* first byte is at offset 0 and s[a:b] is half open.                      *)
(***************************************************************************)
HasPrefixAt(s, p, i) ==
  /\ i + Len(p) <= Len(s)
  /\ \A j \in 1..Len(p) : s[i + j] = p[j]

\* strings.HasPrefix
HasPrefix(s, p) == HasPrefixAt(s, p, 0)

\* strings.Contains
Contains(s, p) == \E i \in 0..(Len(s) - Len(p)) : HasPrefixAt(s, p, i)

\* strings.Index: offset of the first occurrence, -1 when there is none
Index(s, p) ==
  IF Contains(s, p)
  THEN CHOOSE i \in 0..(Len(s) - Len(p)) :
         /\ HasPrefixAt(s, p, i)
         /\ \A k \in 0..(i - 1) : ~HasPrefixAt(s, p, k)
  ELSE -1

RECURSIVE CountFrom(_, _, _)
CountFrom(s, p, i) ==
  IF i + Len(p) > Len(s) THEN 0
  ELSE IF HasPrefixAt(s, p, i) THEN 1 + CountFrom(s, p, i + Len(p))
  ELSE CountFrom(s, p, i + 1)

\* strings.Count for a non-empty p: non-overlapping occurrences, left to right
Count(s, p) == CountFrom(s, p, 0)

\* the slice expression s[a:b]
Slice(s, a, b) == SubSeq(s, a + 1, b)

(***************************************************************************)
(* String literals of the source.                                          *)
(***************************************************************************)
\* "Unknown"
Str_Unknown == <<"U","n","k","n","o","w","n">>
\* "\n"
Str_NL == <<"\n">>
\* "\0"
Str_NUL == <<"NUL">>
\* "D:"
Str_DColon == <<"D",":">>
\* "-"
Str_Dash == <<"-">>
\* " "
Str_Space == <<" ">>
\* ":"
Str_Colon == <<":">>
\* "00"
Str_00 == <<"0","0">>
\* "..."
Str_Ellipsis == <<".",".",".">>
\* "/Type/Sig"
Str_TypeSig == <<"/","T","y","p","e","/","S","i","g">>
\* "/FT/Sig"
Str_FTSig == <<"/","F","T","/","S","i","g">>
\* "RFC3161"
Str_RFC3161 == <<"R","F","C","3","1","6","1">>
\* "adbe.pkcs7"
Str_adbe_pkcs7 == <<"a","d","b","e",".","p","k","c","s","7">>
\* "TSA"
Str_TSA == <<"T","S","A">>
\* "Serpro"
Str_Serpro == <<"S","e","r","p","r","o">>
\* "Assinador Serpro"
Str_AssinadorSerpro == <<"A","s","s","i","n","a","d","o","r"," ","S","e","r","p","r","o">>
\* "ICP-Brasil"
Str_ICPBrasil == <<"I","C","P","-","B","r","a","s","i","l">>
\* "ByteRange"
Str_ByteRange == <<"B","y","t","e","R","a","n","g","e">>
\* "Adobe.PPKLite"
Str_AdobePPKLite == <<"A","d","o","b","e",".","P","P","K","L","i","t","e">>
\* "Adobe.PPKMS"
Str_AdobePPKMS == <<"A","d","o","b","e",".","P","P","K","M","S">>
\* "PKCS"
Str_PKCS == <<"P","K","C","S">>
\* "Custom.PKCS7"
Str_CustomPKCS == <<"C","u","s","t","o","m",".","P","K","C","S","7">>
\* "Serpro - Servi\xC3\x83\xC2\xA7o Federal de Processamento de Dados": 53 bytes,
\* the c-cedilla of the source file is the four bytes C3 83 C2 A7
SerproAuthority == <<"S","e","r","p","r","o"," ","-"," ","S","e","r","v","i","0xC3","0x83","0xC2","0xA7","o"," ","F","e","d","e","r","a","l"," ","d","e"," ","P","r","o","c","e","s","s","a","m","e","n","t","o"," ","d","e"," ","D","a","d","o","s">>
\* "ICP-Brasil Certificate Authority"
ICPBrasilAuthority == <<"I","C","P","-","B","r","a","s","i","l"," ","C","e","r","t","i","f","i","c","a","t","e"," ","A","u","t","h","o","r","i","t","y">>

\* detectSignaturesByteAnalysis: patterns
patterns ==
  << <<"/","T","y","p","e","/","S","i","g">>,
     <<"/","F","T","/","S","i","g">>,
     <<"/","S","i","g","F","l","a","g","s">>,
     <<"A","d","o","b","e",".","P","P","K","L","i","t","e">>,
     <<"A","d","o","b","e",".","P","P","K","M","S">>,
     <<"P","K","C","S","#","7">>,
     <<"p","k","c","s","7">>,
     <<"/","B","y","t","e","R","a","n","g","e">>,
     <<"/","C","o","n","t","e","n","t","s","<">>,
     <<"/","S","u","b","F","i","l","t","e","r","/","a","d","b","e",".","p","k","c","s","7",".","d","e","t","a","c","h","e","d">>,
     <<"/","S","u","b","F","i","l","t","e","r","/","a","d","b","e",".","p","k","c","s","7",".","s","h","a","1">>,
     <<"/","S","u","b","F","i","l","t","e","r","/","E","T","S","I",".","C","A","d","E","S",".","d","e","t","a","c","h","e","d">>,
     <<"/","F","i","l","t","e","r","/","A","d","o","b","e",".","P","P","K","L","i","t","e">>,
     <<"/","F","i","l","t","e","r","/","A","d","o","b","e",".","P","P","K","M","S">> >>

\* detectSignaturesByteAnalysis: sigDictPatterns
sigDictPatterns ==
  << <<"/","S","i","g">>,
     <<"<","<","/","T","y","p","e","/","S","i","g">>,
     <<"<","<","/","F","T","/","S","i","g">> >>

\* detectTimestampByteAnalysis: timestampPatterns
timestampPatterns ==
  << <<"/","S","u","b","F","i","l","t","e","r","/","E","T","S","I",".","R","F","C","3","1","6","1">>,
     <<"/","S","u","b","F","i","l","t","e","r","/","a","d","b","e",".","p","k","c","s","7",".","d","e","t","a","c","h","e","d">>,
     <<"/","M","(","D",":">>,
     <<"/","T","S">>,
     <<"1",".","2",".","8","4","0",".","1","1","3","5","4","9",".","1",".","9",".","1","6",".","1",".","4">>,
     <<"T","i","m","e","S","t","a","m","p","T","o","k","e","n">>,
     <<"T","S","A","T","i","m","e","S","t","a","m","p">>,
     <<"t","i","m","e","s","t","a","m","p","T","o","k","e","n">>,
     <<"/","T","y","p","e","/","T","S","A">>,
     <<"S","e","r","p","r","o">>,
     <<"A","s","s","i","n","a","d","o","r"," ","S","e","r","p","r","o">>,
     <<"I","C","P","-","B","r","a","s","i","l">>,
     <<"A","C"," ","T","i","m","e","s","t","a","m","p","i","n","g">>,
     <<"C","a","r","i","m","b","o">>,
     <<"D",":","2","0">>,
     <<"/","B","y","t","e","R","a","n","g","e">> >>

\* detectTimestampByteAnalysis: timePatterns
timePatterns ==
  << <<"D",":","2","0","2">>,
     <<"D",":","2","0","1">> >>

\* detectTimestampByteAnalysis: authorityPatterns
authorityPatterns ==
  << <<"C","N","=">>,
     <<"O","=">>,
     <<"T","S","A">>,
     <<"T","i","m","e","S","t","a","m","p">>,
     <<"S","e","r","p","r","o">>,
     <<"A","s","s","i","n","a","d","o","r"," ","S","e","r","p","r","o">>,
     <<"I","C","P","-","B","r","a","s","i","l">>,
     <<"A","C"," ","T","i","m","e","s","t","a","m","p","i","n","g">>,
     <<"A","u","t","o","r","i","d","a","d","e"," ","C","e","r","t","i","f","i","c","a","d","o","r","a">>,
     <<"C","e","r","t","i","f","i","c","a","t","e"," ","A","u","t","h","o","r","i","t","y">> >>

(***************************************************************************)
(* ioutil.ReadFile: a read is [ok |-> TRUE, data |-> bytes] or an error.   *)
(***************************************************************************)
ReadOk(data) == [ok |-> TRUE, data |-> data]
ReadError == [ok |-> FALSE, data |-> << >>]

(***************************************************************************)
(* detectSignaturesByteAnalysis (signatures.go)                            *)
(***************************************************************************)
\* ScanPatterns with a corroborating pattern capping the count at 1
RECURSIVE ScanPatterns_Capped(_, _, _)
ScanPatterns_Capped(content, k, signatureCount) ==
  IF k > Len(patterns) THEN signatureCount
  ELSE LET pattern == patterns[k]
           count == Count(content, pattern)
       IN  IF count > 0
           THEN IF pattern = Str_TypeSig \/ pattern = Str_FTSig
                THEN ScanPatterns_Capped(content, k + 1, signatureCount + count)
                ELSE ScanPatterns_Capped(content, k + 1, 1)
           ELSE ScanPatterns_Capped(content, k + 1, signatureCount)

\* the loop over patterns, from pattern k on, with the count so far
RECURSIVE ScanPatterns(_, _, _)
ScanPatterns(content, k, signatureCount) ==
  IF k > Len(patterns) THEN signatureCount
  ELSE LET pattern == patterns[k]
           count == Count(content, pattern)
       IN  IF count > 0
           THEN IF pattern = Str_TypeSig \/ pattern = Str_FTSig
                THEN ScanPatterns(content, k + 1, signatureCount + count)
                ELSE IF signatureCount = 0
                     THEN ScanPatterns(content, k + 1, 1)
                     ELSE ScanPatterns(content, k + 1, signatureCount)
           ELSE ScanPatterns(content, k + 1, signatureCount)

\* the additional heuristics: the loop over sigDictPatterns
SigDictScan(content, signatureCount) ==
  IF signatureCount = 0
  THEN IF \E k \in 1..Len(sigDictPatterns) : Contains(content, sigDictPatterns[k])
       THEN 1
       ELSE 0
  ELSE signatureCount

\* returns (hasSignatures, count, err)
detectSignaturesByteAnalysis(read) ==
  IF ~read.ok
  THEN [has |-> FALSE, count |-> 0, err |-> TRUE]
  ELSE LET signatureCount == SigDictScan(read.data, ScanPatterns(read.data, 1, 0))
       IN  [has |-> signatureCount > 0, count |-> signatureCount, err |-> FALSE]

(***************************************************************************)
(* detectTimestampByteAnalysis (timestamp_analysis.go)                     *)
(***************************************************************************)
\* the if/else chain on the text of the pattern that matched
TimestampTypeOf(pattern) ==
  IF Contains(pattern, Str_RFC3161) THEN "RFC3161"
  ELSE IF Contains(pattern, Str_adbe_pkcs7) THEN "PKCS#7"
  ELSE IF Contains(pattern, Str_TSA) THEN "TSA"
  ELSE IF Contains(pattern, Str_Serpro) \/ Contains(pattern, Str_AssinadorSerpro)
       THEN "Serpro TSA"
  ELSE IF Contains(pattern, Str_ICPBrasil) THEN "ICP-Brasil"
  ELSE IF Contains(pattern, Str_ByteRange) THEN "Embedded"
  ELSE "Standard"

\* FirstMatch that lets the last pattern that occurs decide
FirstMatch_Last(content, list) ==
  IF \E k \in 1..Len(list) : Contains(content, list[k])
  THEN CHOOSE k \in 1..Len(list) :
         /\ Contains(content, list[k])
         /\ \A j \in (k + 1)..Len(list) : ~Contains(content, list[j])
  ELSE 0

\* index in list of the first pattern that occurs in content, 0 when none does
FirstMatch(content, list) ==
  IF \E k \in 1..Len(list) : Contains(content, list[k])
  THEN CHOOSE k \in 1..Len(list) :
         /\ Contains(content, list[k])
         /\ \A j \in 1..(k - 1) : ~Contains(content, list[j])
  ELSE 0

\* FormatTimestamp without the read of the seconds field
FormatTimestamp_NoSeconds(content, idx) ==
  LET endIdx == IF idx + 20 > Len(content) THEN Len(content) ELSE idx + 20
      rawTime == Slice(content, idx, endIdx)
  IN  IF Len(rawTime) >= 15
      THEN IF HasPrefix(rawTime, Str_DColon)
           THEN Slice(rawTime, 2, 6) \o Str_Dash \o Slice(rawTime, 6, 8) \o Str_Dash
                  \o Slice(rawTime, 8, 10) \o Str_Space \o Slice(rawTime, 10, 12)
                  \o Str_Colon \o Slice(rawTime, 12, 14) \o Str_Colon \o Str_00
           ELSE Slice(rawTime, 0, 15)
      ELSE rawTime

\* FormatTimestamp that gives no time when fewer than 15 bytes are left
FormatTimestamp_DropShort(content, idx) ==
  LET endIdx == IF idx + 20 > Len(content) THEN Len(content) ELSE idx + 20
      rawTime == Slice(content, idx, endIdx)
  IN  IF Len(rawTime) >= 15
      THEN Slice(rawTime, 2, 6) \o Str_Dash \o Slice(rawTime, 6, 8) \o Str_Dash
             \o Slice(rawTime, 8, 10) \o Str_Space \o Slice(rawTime, 10, 12)
             \o Str_Colon \o Slice(rawTime, 12, 14) \o Str_Colon
             \o (IF Len(rawTime) >= 16 THEN Slice(rawTime, 14, 16) ELSE Str_00)
      ELSE << >>

\* FormatTimestamp that takes the branch of the first 15 bytes
FormatTimestamp_RawFifteen(content, idx) ==
  LET endIdx == IF idx + 20 > Len(content) THEN Len(content) ELSE idx + 20
      rawTime == Slice(content, idx, endIdx)
  IN  IF Len(rawTime) >= 15 THEN Slice(rawTime, 0, 15) ELSE rawTime

\* the body of the timePatterns loop for the pattern found at offset idx
FormatTimestamp(content, idx) ==
  LET endIdx == IF idx + 20 > Len(content) THEN Len(content) ELSE idx + 20
      timestampStr == Slice(content, idx, endIdx)
      rawTime == timestampStr
  IN  IF Len(timestampStr) >= 15
      THEN IF HasPrefix(rawTime, Str_DColon) /\ Len(rawTime) >= 15
           THEN LET year == Slice(rawTime, 2, 6)
                    month == Slice(rawTime, 6, 8)
                    day == Slice(rawTime, 8, 10)
                    hour == Slice(rawTime, 10, 12)
                    minute == Slice(rawTime, 12, 14)
                    second == IF Len(rawTime) >= 16 THEN Slice(rawTime, 14, 16) ELSE Str_00
                IN  year \o Str_Dash \o month \o Str_Dash \o day \o Str_Space
                      \o hour \o Str_Colon \o minute \o Str_Colon \o second
           ELSE Slice(rawTime, 0, 15)
      ELSE timestampStr

\* ExtractTime that takes the date that comes first in the file
ExtractTime_ByPosition(content) ==
  LET found == { k \in 1..Len(timePatterns) : Contains(content, timePatterns[k]) }
  IN  IF found = {} THEN << >>
      ELSE LET k == CHOOSE a \in found :
                      \A b \in found : Index(content, timePatterns[a])
                                          <= Index(content, timePatterns[b])
           IN  FormatTimestamp(content, Index(content, timePatterns[k]))

\* timestampInfo["time"] after the timePatterns loop ("" when no pattern occurs)
ExtractTime(content) ==
  LET k == FirstMatch(content, timePatterns)
  IN  IF k = 0 THEN << >>
      ELSE FormatTimestamp(content, Index(content, timePatterns[k]))

\* authStr[:i] at the first occurrence of sep, authStr when sep does not occur
CutAt(authStr, sep) ==
  IF Index(authStr, sep) # -1 THEN Slice(authStr, 0, Index(authStr, sep)) ELSE authStr

\* FormatAuthority that cuts at the newline only
FormatAuthority_NoNullCut(content, idx) ==
  LET endIdx == IF idx + 80 > Len(content) THEN Len(content) ELSE idx + 80
      authStr == CutAt(Slice(content, idx, endIdx), Str_NL)
  IN  IF Contains(authStr, Str_Serpro) \/ Contains(authStr, Str_AssinadorSerpro)
      THEN SerproAuthority
      ELSE IF Contains(authStr, Str_ICPBrasil)
      THEN ICPBrasilAuthority
      ELSE IF Len(authStr) > 40
           THEN Slice(authStr, 0, 40) \o Str_Ellipsis
           ELSE authStr

\* the body of the authorityPatterns loop for the pattern found at offset idx
FormatAuthority(content, idx) ==
  LET endIdx == IF idx + 80 > Len(content) THEN Len(content) ELSE idx + 80
      authStr == CutAt(CutAt(Slice(content, idx, endIdx), Str_NL), Str_NUL)
  IN  IF Contains(authStr, Str_Serpro) \/ Contains(authStr, Str_AssinadorSerpro)
      THEN SerproAuthority
      ELSE IF Contains(authStr, Str_ICPBrasil)
      THEN ICPBrasilAuthority
      ELSE IF Len(authStr) > 40
           THEN Slice(authStr, 0, 40) \o Str_Ellipsis
           ELSE authStr

\* timestampInfo["authority"] after the authorityPatterns loop
ExtractAuthority(content) ==
  LET k == FirstMatch(content, authorityPatterns)
  IN  IF k = 0 THEN << >>
      ELSE FormatAuthority(content, Index(content, authorityPatterns[k]))

\* detectTimestampByteAnalysis without the "Unknown" defaults
detectTimestampByteAnalysis_NoDefaults(read) ==
  IF ~read.ok
  THEN [has |-> FALSE, type |-> "", time |-> << >>, authority |-> << >>]
  ELSE LET content == read.data
           k == FirstMatch(content, timestampPatterns)
       IN  IF k = 0
           THEN [has |-> FALSE, type |-> "", time |-> << >>, authority |-> << >>]
           ELSE [has |-> TRUE,
                 type |-> TimestampTypeOf(timestampPatterns[k]),
                 time |-> ExtractTime(content),
                 authority |-> ExtractAuthority(content)]

\* returns (hasTimestamp, timestampInfo); a missing map key reads as ""
detectTimestampByteAnalysis(read) ==
  IF ~read.ok
  THEN [has |-> FALSE, type |-> "", time |-> << >>, authority |-> << >>]
  ELSE LET content == read.data
           k == FirstMatch(content, timestampPatterns)
           time == ExtractTime(content)
           authority == ExtractAuthority(content)
       IN  IF k = 0
           THEN [has |-> FALSE, type |-> "", time |-> << >>, authority |-> << >>]
           ELSE [has |-> TRUE,
                 type |-> TimestampTypeOf(timestampPatterns[k]),
                 time |-> IF time = << >> THEN Str_Unknown ELSE time,
                 authority |-> IF authority = << >> THEN Str_Unknown ELSE authority]

\* analyzeTimestamp without the initialisation of the timestamp fields
analyzeTimestamp_NoReset(read, sigInfo) ==
  LET ts == detectTimestampByteAnalysis(read)
  IN  IF ts.has
      THEN [sigInfo EXCEPT !.HasTimestamp = TRUE,
                           !.TimestampType = ts.type,
                           !.TimestampTime = ts.time,
                           !.TimestampAuthority = ts.authority,
                           !.TimestampStatus = "Present"]
      ELSE sigInfo

\* analyzeTimestamp: the record sigInfo after the call
analyzeTimestamp(read, sigInfo) ==
  LET ts == detectTimestampByteAnalysis(read)
  IN  IF ts.has
      THEN [sigInfo EXCEPT !.HasTimestamp = TRUE,
                           !.TimestampType = ts.type,
                           !.TimestampTime = ts.time,
                           !.TimestampAuthority = ts.authority,
                           !.TimestampStatus = "Present"]
      ELSE [sigInfo EXCEPT !.HasTimestamp = FALSE,
                           !.TimestampType = "",
                           !.TimestampTime = << >>,
                           !.TimestampAuthority = << >>,
                           !.TimestampStatus = "None"]

(***************************************************************************)
(* The document model (pdfcpu model.Context) as the locator uses it.        *)
(* An object is [t |-> kind, v |-> value]: a name, an integer, an          *)
(* indirect reference (v is the object number), a dictionary (v maps keys  *)
(* to objects), an array (v is a sequence of objects) or nil.  The value   *)
(* of a Filter name is a sequence of characters, as the locator searches   *)
(* it; the other names are compared whole and are TLA+ strings.            *)
(* RootDict is a field of the embedded XRefTable, so the table is never    *)
(* nil where the locator reads RootDict.                                   *)
(***************************************************************************)
Nil == [t |-> "nil", v |-> 0]
Name(s) == [t |-> "name", v |-> s]
Integer(n) == [t |-> "int", v |-> n]
IndirectRef(n) == [t |-> "ref", v |-> n]
Dict(d) == [t |-> "dict", v |-> d]
Array(a) == [t |-> "array", v |-> a]

IsName(o, s) == o.t = "name" /\ o.v = s

\* dict.Entry(dictName, key, required): (object, found).  The entry looked up
\* is key; dictName only names the dictionary in the message of the error
\* for a required entry.  Every call of the program passes the name of the
\* entry as dictName and "" as key.
Found(dict, dictName, key) == key \in DOMAIN dict.v
Entry(dict, dictName, key) == IF Found(dict, dictName, key) THEN dict.v[key] ELSE Nil

\* ctx.XRefTable.FindTableEntry(i, 0).Object, nil when there is no entry
TableObject(ctx, i) ==
  IF i \in 1..Len(ctx.XRefTable) THEN ctx.XRefTable[i] ELSE Nil

\* ctx.Dereference(indRef): (object, err)
Dereference(ctx, indRef) ==
  [err |-> indRef.v \in ctx.BadRefs, obj |-> TableObject(ctx, indRef.v)]

\* resolveFieldDict: the dictionary a field reference resolves to, or nil
resolveFieldDict(ctx, fieldRef) ==
  IF fieldRef.t = "ref"
  THEN LET r == Dereference(ctx, fieldRef)
       IN  IF ~r.err /\ r.obj.t = "dict" THEN r.obj ELSE Nil
  ELSE IF fieldRef.t = "dict" THEN fieldRef ELSE Nil

\* isSignatureField (pdf-info.go)
isSignatureField(fieldDict) ==
  \/ Found(fieldDict, "FT", "") /\ IsName(Entry(fieldDict, "FT", ""), "Sig")
  \/ /\ Found(fieldDict, "Subtype", "")
     /\ \/ IsName(Entry(fieldDict, "Subtype", ""), "Widget")
        \/ IsName(Entry(fieldDict, "Subtype", ""), "Signature")
     /\ \/ Found(fieldDict, "V", "") /\ Entry(fieldDict, "V", "").t # "nil"
        \/ Found(fieldDict, "SigFlags", "") /\ Entry(fieldDict, "SigFlags", "").t # "nil"
  \/ /\ Found(fieldDict, "V", "")
     /\ Entry(fieldDict, "V", "").t \in {"dict", "ref"}

\* AcroFormFieldCount that stops at the first field that cannot be resolved
AcroFormFieldCount_StopAtFailure(ctx, acroFormObj) ==
  IF acroFormObj.t # "dict" THEN 0
  ELSE IF ~Found(acroFormObj, "Fields", "") \/ Entry(acroFormObj, "Fields", "").t = "nil" THEN 0
  ELSE LET fieldsObj == Entry(acroFormObj, "Fields", "")
           r == Dereference(ctx, fieldsObj)
           resolved == IF fieldsObj.t = "ref" THEN r.obj ELSE fieldsObj
       IN  IF fieldsObj.t = "ref" /\ r.err THEN 0
           ELSE IF resolved.t # "array" THEN 0
           ELSE Cardinality({k \in 1..Len(resolved.v) :
                  /\ \A j \in 1..k : resolveFieldDict(ctx, resolved.v[j]).t = "dict"
                  /\ isSignatureField(resolveFieldDict(ctx, resolved.v[k]))})

\* the loop of processAcroForm of pdf-info.go: the number of signature fields
\* of the Fields array
AcroFormFieldCount(ctx, acroFormObj) ==
  IF acroFormObj.t # "dict" THEN 0
  ELSE IF ~Found(acroFormObj, "Fields", "") \/ Entry(acroFormObj, "Fields", "").t = "nil" THEN 0
  ELSE LET fieldsObj == Entry(acroFormObj, "Fields", "")
           r == Dereference(ctx, fieldsObj)
           resolved == IF fieldsObj.t = "ref" THEN r.obj ELSE fieldsObj
       IN  IF fieldsObj.t = "ref" /\ r.err THEN 0
           ELSE IF resolved.t # "array" THEN 0
           ELSE Cardinality({k \in 1..Len(resolved.v) :
                  LET fieldDict == resolveFieldDict(ctx, resolved.v[k])
                  IN  fieldDict.t = "dict" /\ isSignatureField(fieldDict)})

\* processAcroForm of pdf-info.go: (count, info)
processAcroFormPdfInfo(ctx, acroFormObj, info) ==
  LET signatureCount == AcroFormFieldCount(ctx, acroFormObj)
  IN  [count |-> signatureCount,
       info |-> IF signatureCount > 0
                THEN [info EXCEPT !.HasDigitalSignatures = TRUE,
                                  !.SignatureCount = signatureCount]
                ELSE info]

\* processAcroForm of signatures.go, the one detectSignatureFields of
\* signatures.go calls: a placeholder that returns 0 and leaves info alone
processAcroForm(ctx, acroFormObj, info) == [count |-> 0, info |-> info]

\* the third check of the cross-reference scan: V is an indirect reference
\* to a dictionary whose Filter names a signature handler
HasSignatureValue(ctx, dict) ==
  /\ Found(dict, "V", "")
  /\ Entry(dict, "V", "").t = "ref"
  /\ LET r == Dereference(ctx, Entry(dict, "V", ""))
     IN  /\ ~r.err
         /\ r.obj.t = "dict"
         /\ Found(r.obj, "Filter", "")
         /\ Entry(r.obj, "Filter", "").t = "name"
         /\ LET filter == Entry(r.obj, "Filter", "").v
            IN  \/ filter = Str_AdobePPKLite
                \/ filter = Str_AdobePPKMS
                \/ Contains(filter, Str_PKCS)

\* what one object-table entry adds to signatureCount
XRefEntryCount(ctx, i) ==
  LET obj == TableObject(ctx, i)
  IN  IF obj.t # "dict" THEN 0
      ELSE (IF Found(obj, "Type", "") /\ IsName(Entry(obj, "Type", ""), "Sig") THEN 1 ELSE 0)
         + (IF Found(obj, "FT", "") /\ IsName(Entry(obj, "FT", ""), "Sig") THEN 1 ELSE 0)
         + (IF HasSignatureValue(ctx, obj) THEN 1 ELSE 0)

\* Method 2: the loop for i := 1; i <= *ctx.XRefTable.Size, from entry i on
RECURSIVE XRefScan(_, _)
XRefScan(ctx, i) ==
  IF i > ctx.Size THEN 0
  ELSE XRefEntryCount(ctx, i) + XRefScan(ctx, i + 1)

\* hasSignatureIndicators
hasSignatureIndicators(ctx) ==
  /\ ctx.RootDict.t = "dict"
  /\ Found(ctx.RootDict, "AcroForm", "")
  /\ LET acroFormObj == Entry(ctx.RootDict, "AcroForm", "")
     IN  IF acroFormObj.t = "ref"
         THEN LET r == Dereference(ctx, acroFormObj)
              IN  /\ ~r.err
                  /\ r.obj.t = "dict"
                  /\ Found(r.obj, "SigFlags", "")
                  /\ Entry(r.obj, "SigFlags", "").t # "nil"
         ELSE /\ acroFormObj.t = "dict"
              /\ Found(acroFormObj, "SigFlags", "")
              /\ Entry(acroFormObj, "SigFlags", "").t # "nil"

\* detectSignatureFields that sets HasDigitalSignatures and returns true
\* without writing the count
detectSignatureFields_FlagOnly(ctx, info) ==
  IF ctx.RootDict.t # "dict"
  THEN [found |-> FALSE, info |-> info]
  ELSE LET acroFormObj == Entry(ctx.RootDict, "AcroForm", "")
           acro == IF Found(ctx.RootDict, "AcroForm", "") /\ acroFormObj.t # "nil"
                   THEN processAcroForm(ctx, acroFormObj, info)
                   ELSE [count |-> 0, info |-> info]
           signatureFound == acro.count > 0
           scanned == XRefScan(ctx, 1)
           signatureCount == IF ~signatureFound /\ scanned = 0
                             THEN IF hasSignatureIndicators(ctx) THEN 1 ELSE 0
                             ELSE scanned
       IN  IF signatureCount > 0 \/ signatureFound
           THEN [found |-> TRUE,
                 info |-> [acro.info EXCEPT
                             !.HasDigitalSignatures = TRUE]]
           ELSE [found |-> FALSE, info |-> acro.info]

\* detectSignatureFields that records what the catalog indicator gives and
\* returns true only for what the scan or the walk found
detectSignatureFields_IndicatorNotReported(ctx, info) ==
  IF ctx.RootDict.t # "dict"
  THEN [found |-> FALSE, info |-> info]
  ELSE LET acroFormObj == Entry(ctx.RootDict, "AcroForm", "")
           acro == IF Found(ctx.RootDict, "AcroForm", "") /\ acroFormObj.t # "nil"
                   THEN processAcroForm(ctx, acroFormObj, info)
                   ELSE [count |-> 0, info |-> info]
           signatureFound == acro.count > 0
           scanned == XRefScan(ctx, 1)
           signatureCount == IF ~signatureFound /\ scanned = 0
                             THEN IF hasSignatureIndicators(ctx) THEN 1 ELSE 0
                             ELSE scanned
       IN  IF signatureCount > 0 \/ signatureFound
           THEN [found |-> (scanned > 0 \/ signatureFound),
                 info |-> [acro.info EXCEPT
                             !.HasDigitalSignatures = TRUE,
                             !.SignatureCount =
                                IF signatureCount > acro.info.SignatureCount
                                THEN signatureCount
                                ELSE acro.info.SignatureCount]]
           ELSE [found |-> FALSE, info |-> acro.info]

\* detectSignatureFields of signatures.go: (found, info)
detectSignatureFields(ctx, info) ==
  IF ctx.RootDict.t # "dict"
  THEN [found |-> FALSE, info |-> info]
  ELSE LET acroFormObj == Entry(ctx.RootDict, "AcroForm", "")
           acro == IF Found(ctx.RootDict, "AcroForm", "") /\ acroFormObj.t # "nil"
                   THEN processAcroForm(ctx, acroFormObj, info)
                   ELSE [count |-> 0, info |-> info]
           signatureFound == acro.count > 0
           scanned == XRefScan(ctx, 1)
           signatureCount == IF ~signatureFound /\ scanned = 0
                             THEN IF hasSignatureIndicators(ctx) THEN 1 ELSE 0
                             ELSE scanned
       IN  IF signatureCount > 0 \/ signatureFound
           THEN [found |-> TRUE,
                 info |-> [acro.info EXCEPT
                             !.HasDigitalSignatures = TRUE,
                             !.SignatureCount =
                                IF signatureCount > acro.info.SignatureCount
                                THEN signatureCount
                                ELSE acro.info.SignatureCount]]
           ELSE [found |-> FALSE, info |-> acro.info]

\* detectSignatureFields of pdf-info.go that skips the cross-reference scan
\* when the AcroForm walk found fields
detectSignatureFields_FirstWins(ctx, info) ==
  IF ctx.RootDict.t # "dict"
  THEN [found |-> FALSE, info |-> info]
  ELSE LET acroFormObj == Entry(ctx.RootDict, "AcroForm", "")
           acro == IF Found(ctx.RootDict, "AcroForm", "") /\ acroFormObj.t # "nil"
                   THEN processAcroFormPdfInfo(ctx, acroFormObj, info)
                   ELSE [count |-> 0, info |-> info]
           signatureFound == acro.count > 0
           scanned == IF signatureFound THEN 0 ELSE XRefScan(ctx, 1)
           signatureCount == IF ~signatureFound /\ scanned = 0
                             THEN IF hasSignatureIndicators(ctx) THEN 1 ELSE 0
                             ELSE scanned
       IN  IF signatureCount > 0 \/ signatureFound
           THEN [found |-> TRUE,
                 info |-> [acro.info EXCEPT
                             !.HasDigitalSignatures = TRUE,
                             !.SignatureCount =
                                IF signatureCount > acro.info.SignatureCount
                                THEN signatureCount
                                ELSE acro.info.SignatureCount]]
           ELSE [found |-> FALSE, info |-> acro.info]

\* detectSignatureFields of pdf-info.go, the same text as in signatures.go,
\* where processAcroForm is the one of pdf-info.go: (found, info)
detectSignatureFieldsPdfInfo(ctx, info) ==
  IF ctx.RootDict.t # "dict"
  THEN [found |-> FALSE, info |-> info]
  ELSE LET acroFormObj == Entry(ctx.RootDict, "AcroForm", "")
           acro == IF Found(ctx.RootDict, "AcroForm", "") /\ acroFormObj.t # "nil"
                   THEN processAcroFormPdfInfo(ctx, acroFormObj, info)
                   ELSE [count |-> 0, info |-> info]
           signatureFound == acro.count > 0
           scanned == XRefScan(ctx, 1)
           signatureCount == IF ~signatureFound /\ scanned = 0
                             THEN IF hasSignatureIndicators(ctx) THEN 1 ELSE 0
                             ELSE scanned
       IN  IF signatureCount > 0 \/ signatureFound
           THEN [found |-> TRUE,
                 info |-> [acro.info EXCEPT
                             !.HasDigitalSignatures = TRUE,
                             !.SignatureCount =
                                IF signatureCount > acro.info.SignatureCount
                                THEN signatureCount
                                ELSE acro.info.SignatureCount]]
           ELSE [found |-> FALSE, info |-> acro.info]

(***************************************************************************)
(* The documents api.ReadContextFile can return.                           *)
(***************************************************************************)
Context(root, table, bad, enc) ==
  [RootDict |-> root, XRefTable |-> table, Size |-> Len(table) + 1,
   BadRefs |-> bad, E |-> enc]

Catalog == Dict([Type |-> Name("Catalog")])
Page == Dict([Type |-> Name("Page")])

\* a dictionary whose one entry has the empty name as key, "<< / x >>": the
\* entry that dict.Entry(name, "", false) finds
Unnamed(x) == Dict([key \in {""} |-> x])

\* Documents 1 to 11 and 13 are written with entries under the empty name,
\* the entries the locator reads; documents 2, 12, 14 and 15 are ordinary
\* documents, whose entries have the names of the PDF standard.
Docs ==
  << \* 1: no document catalog
     Context(Nil, << >>, {}, FALSE),
     \* 2: an ordinary document, no AcroForm, no signature object
     Context(Catalog, <<Catalog, Page>>, {}, FALSE),
     \* 3: encrypted, one object whose entry refers to a dictionary with the
     \* name Adobe.PPKLite: the scan counts 1
     Context(Catalog,
             <<Catalog, Unnamed(IndirectRef(3)), Unnamed(Name(Str_AdobePPKLite))>>,
             {}, TRUE),
     \* 4: one object whose entry is the name Sig: it passes the Type and the
     \* FT check of the scan
     Context(Catalog, <<Catalog, Unnamed(Name("Sig"))>>, {}, FALSE),
     \* 5: the catalog entry is a direct dictionary with an entry that is no
     \* array: no field, the indicator is there
     Context(Unnamed(Unnamed(Integer(3))), <<Catalog, Page>>, {}, FALSE),
     \* 6: the catalog entry refers to a dictionary with an array of one field
     \* that is in the object table
     Context(Unnamed(IndirectRef(2)),
             <<Catalog, Unnamed(Array(<<IndirectRef(3)>>)), Unnamed(Name("Sig"))>>,
             {}, FALSE),
     \* 7: fields that are direct dictionaries: Sig, Tx and Widget
     Context(Unnamed(Unnamed(Array(<<Unnamed(Name("Sig")), Unnamed(Name("Tx")),
                                     Unnamed(Name("Widget"))>>))),
             <<Catalog, Page>>, {}, FALSE),
     \* 8: encrypted, one field (object 2), which the scan counts twice, and an
     \* object that refers to a dictionary with the name Custom.PKCS7
     Context(Unnamed(Unnamed(Array(<<IndirectRef(2)>>))),
             <<Catalog, Unnamed(Name("Sig")), Unnamed(IndirectRef(4)),
               Unnamed(Name(Str_CustomPKCS))>>, {}, TRUE),
     \* 9: references that fail to dereference
     Context(Unnamed(IndirectRef(3)),
             <<Catalog, Unnamed(IndirectRef(3)), Array(<<Unnamed(Name("Sig"))>>)>>,
             {3}, FALSE),
     \* 10: encrypted, the catalog entry refers to a dictionary with an entry
     \* that is no array
     Context(Unnamed(IndirectRef(2)), <<Catalog, Unnamed(Integer(3))>>, {}, TRUE),
     \* 11: the array of fields behind a reference: a Sig field and a field
     \* whose entry is a reference
     Context(Unnamed(Unnamed(IndirectRef(2))),
             <<Catalog, Array(<<IndirectRef(3), IndirectRef(4)>>),
               Unnamed(Name("Sig")), Unnamed(IndirectRef(1))>>, {}, FALSE),
     \* 12: an ordinary signed document: AcroForm with SigFlags and one field
     \* with FT Sig whose V refers to the signature dictionary
     Context(Dict([Type |-> Name("Catalog"),
                   AcroForm |-> Dict([Fields |-> Array(<<IndirectRef(2)>>),
                                      SigFlags |-> Integer(3)])]),
             <<Catalog,
               Dict([FT |-> Name("Sig"), V |-> IndirectRef(3)]),
               Dict([Type |-> Name("Sig"), Filter |-> Name(Str_AdobePPKLite)])>>,
             {}, FALSE),
     \* 13: a field reference that fails, one to a number, then two fields; in
     \* the object table a number and an entry whose reference fails
     Context(Unnamed(Unnamed(Array(<<IndirectRef(5), IndirectRef(2), IndirectRef(4),
                                     Unnamed(Name("Widget"))>>))),
             <<Catalog, Integer(42), Unnamed(IndirectRef(5)), Unnamed(Name("Signature")),
               Page>>,
             {5}, FALSE),
     \* 14: an ordinary encrypted document with one /Type/Sig object
     Context(Catalog, <<Catalog, Dict([Type |-> Name("Sig")])>>, {}, TRUE),
     \* 15: an ordinary document with a direct AcroForm that has SigFlags only
     Context(Dict([Type |-> Name("Catalog"),
                   AcroForm |-> Dict([SigFlags |-> Integer(3)])]),
             <<Catalog, Page>>, {}, FALSE) >>

(***************************************************************************)
(* The answers of the validation service, api.ValidateSignatures.          *)
(***************************************************************************)
\* model.SignatureStatus: 0 unknown, 1 valid, 2 invalid; 3 is any other code
StatusCodes == 0..3

FieldNames == <<"Signature1", "Signature2", "Signature3", "Signature4">>

ResultLists(n) ==
  { [i \in 1..n |-> [FieldName |-> FieldNames[i], Status |-> f[i][1], Certified |-> f[i][2]]] :
      f \in [1..n -> StatusCodes \X BOOLEAN] }

ValidationError == [err |-> TRUE, results |-> << >>]

ValOutcomes ==
  {ValidationError} \cup
  { [err |-> FALSE, results |-> r] : r \in UNION {ResultLists(n) : n \in 0..MaxResults} }

(***************************************************************************)
(* The files analysed.  A file is its bytes together with what the two     *)
(* external collaborators answer for it: doc is the index in Docs of the   *)
(* context ReadContextFile returns (0: it fails), val is the answer of     *)
(* ValidateSignatures.                                                     *)
(***************************************************************************)
\* the fragments, in the order they take in a file
Fragments ==
     \* 1
  << <<"%","P","D","F","\n">>,
     \* 2
     <<"/","T","y","p","e","/","S","i","g">>,
     \* 3
     <<"/","T","y","p","e","/","S","i","g">>,
     \* 4
     <<"/","F","T","/","S","i","g">>,
     \* 5
     <<"/","S","i","g","F","l","a","g","s">>,
     \* 6
     <<"/","S","i","g">>,
     \* 7
     <<"D",":","2","0","2","4","0","1","0","1">>,
     \* 8
     <<"D",":","2","0","1","9">>,
     \* 9
     <<"O","=","O","r","g","\n">>,
     \* 10
     <<"C","N","=","A","C">>,
     \* 11
     <<"/","T","S">>,
     \* 12
     <<"S","e","r","p","r","o">>,
     \* 13
     <<"D",":","2","0","2","5","0","6","0","6","1","5","5","8","2","7">>,
     \* 14
     <<"/","B","y","t","e","R","a","n","g","e">>,
     \* 15
     <<"/","S","u","b","F","i","l","t","e","r","/","a","d","b","e",".","p","k","c","s","7",".","d","e","t","a","c","h","e","d">>,
     \* 16
     <<"I","C","P","-","B","r","a","s","i","l">>,
     \* 17
     <<"/","S","u","b","F","i","l","t","e","r","/","E","T","S","I",".","R","F","C","3","1","6","1">>,
     \* 18
     <<"T","S","A","T","i","m","e","S","t","a","m","p">> >>

\* strictly increasing sequences of at most k fragment indices
RECURSIVE Picks(_)
Picks(k) ==
  IF k = 0 THEN {<< >>}
  ELSE LET prev == Picks(k - 1)
           ext == { x \in prev \X (1..Len(Fragments)) :
                      /\ Len(x[1]) = k - 1
                      /\ x[1] = << >> \/ x[2] > x[1][Len(x[1])] }
       IN  prev \cup { Append(x[1], x[2]) : x \in ext }

RECURSIVE Join(_)
Join(p) == IF p = << >> THEN << >> ELSE Fragments[Head(p)] \o Join(Tail(p))

\* every content of at most MaxFrags fragments, taken in file order
Contents == { Join(p) : p \in Picks(MaxFrags) }

\* the contents the reconciliation engine is explored with: no marker,
\* /Type/Sig twice and /FT/Sig once, Serpro with a date
EngineContents == { Join(<<1>>), Join(<<2, 3, 4>>), Join(<<12, 13>>) }

\* a document without structural signature evidence, so that the byte scan runs
PlainDoc == 2

CertifiedValid ==
  [err |-> FALSE,
   results |-> <<[FieldName |-> FieldNames[1], Status |-> 1, Certified |-> TRUE]>>]

\* the answers of the validation by their number of results: an error, or n
\* valid results of which the first certifies
EngineVals ==
  {ValidationError} \cup
  { [err |-> FALSE,
     results |-> [i \in 1..n |->
                    [FieldName |-> FieldNames[i], Status |-> 1, Certified |-> (i = 1)]]] :
      n \in 0..MaxResults }

\* an encrypted document in which the locator finds one signature
EncryptedSigned == 3

\* a content of 94 bytes: 'CN=' at offset 0 and 'Serpro' at offset 88, past
\* the 80 bytes read for the authority
LongContent == Join(<<10, 15, 17, 15, 12>>)

\* a content with a null byte: 'CN=AC', the byte 0, 'Serpro', 'O=Org' and a
\* newline
NulContent == Join(<<10>>) \o Str_NUL \o Join(<<12, 9>>)

\* every content with the plain document; every document with the contents of
\* the engine and every number of results; every validation answer with a
\* plain and a signed document; the long content and the one with a null byte
Files ==
  { [content |-> c, doc |-> PlainDoc, val |-> v] :
      c \in Contents, v \in {ValidationError, CertifiedValid} }
  \cup
  { [content |-> c, doc |-> d, val |-> v] :
      c \in EngineContents, d \in 0..Len(Docs), v \in EngineVals }
  \cup
  { [content |-> Join(<<12, 13>>), doc |-> d, val |-> v] :
      d \in {PlainDoc, EncryptedSigned}, v \in ValOutcomes }
  \cup
  { [content |-> c, doc |-> PlainDoc, val |-> CertifiedValid] :
      c \in {LongContent, NulContent} }

(***************************************************************************)
(* The program state.                                                      *)
(***************************************************************************)
VARIABLES
  pc,                  \* the call the run is about to make
  file,                \* the file at os.Args[1]
  ctx,                 \* analyzePDFCPU: ctx
  info,                \* AnalyzePDF: info
  hasSignatureFields,  \* analyzeDigitalSignatures: hasSignatureFields
  raw,                 \* what detectSignaturesByteAnalysis returned
  results,             \* analyzeDigitalSignatures: the results not yet processed
  out,                 \* what has been printed
  exitCode,            \* the exit status, -1 while running
  answers,             \* what os.Stat, ioutil.ReadFile and pdf.Open answered in this call
  done,                \* the calls of AnalyzePDF that returned before this one
  calls                \* the stages analyzeDigitalSignatures has called, in order

vars == <<pc, file, ctx, info, hasSignatureFields, raw, results, out, exitCode,
          answers, done, calls>>

NoContext == Context(Nil, << >>, {}, FALSE)
NotCalled == [called |-> FALSE, has |-> FALSE, count |-> 0, err |-> FALSE]

\* &PDFInfo{}
NewPDFInfo ==
  [HasDigitalSignatures |-> FALSE, SignatureCount |-> 0, Signatures |-> << >>,
   IsEncrypted |-> FALSE]

Init ==
  /\ pc = "main"
  /\ file \in Files
  /\ ctx = NoContext
  /\ info = NewPDFInfo
  /\ hasSignatureFields = FALSE
  /\ raw = NotCalled
  /\ results = << >>
  /\ out = << >>
  /\ exitCode = -1
  /\ answers = << >>
  /\ done = << >>
  /\ calls = << >>

(***************************************************************************)
(* main and AnalyzePDF                                                     *)
(***************************************************************************)
\* main: the argument check; AnalyzePDF: info := &PDFInfo{}
Main ==
  /\ pc = "main"
  /\ \E argGiven \in BOOLEAN :
       IF argGiven
       THEN /\ pc' = "getFileInfo"
            /\ info' = NewPDFInfo
            /\ UNCHANGED <<out, exitCode>>
       ELSE /\ pc' = "exit"
            /\ out' = Append(out, "Usage: go run . <pdf_path>")
            /\ exitCode' = 1
            /\ UNCHANGED info
  /\ UNCHANGED <<file, ctx, hasSignatureFields, raw, results, answers, done, calls>>

\* getFileInfo; on an error AnalyzePDF returns it and main ends in log.Fatalf
GetFileInfo ==
  /\ pc = "getFileInfo"
  /\ \E ok \in BOOLEAN :
       /\ answers' = Append(answers, ok)
       /\ IF ok
          THEN /\ pc' = "analyzePDFCPU"
               /\ UNCHANGED <<out, exitCode>>
          ELSE /\ pc' = "exit"
               /\ out' = Append(out, "Error analyzing PDF")
               /\ exitCode' = 1
  /\ UNCHANGED <<file, ctx, info, hasSignatureFields, raw, results, done, calls>>

\* ReadContextFile with the error of analyzePDFCPU returned to main as fatal
ReadContextFile_Fatal ==
  /\ pc = "analyzePDFCPU"
  /\ IF file.doc = 0
     THEN /\ pc' = "exit"
          /\ out' = Append(out, "Error analyzing PDF")
          /\ exitCode' = 1
          /\ UNCHANGED <<ctx, info>>
     ELSE /\ pc' = "detectSignatureFields"
          /\ ctx' = Docs[file.doc]
          /\ info' = [info EXCEPT !.IsEncrypted = Docs[file.doc].E]
          /\ UNCHANGED <<out, exitCode>>
  /\ UNCHANGED <<file, hasSignatureFields, raw, results, answers, done, calls>>

\* ReadContextFile that goes on to the byte scan when the document cannot be
\* opened
ReadContextFile_ScanAnyway ==
  /\ pc = "analyzePDFCPU"
  /\ IF file.doc = 0
     THEN /\ pc' = "detectSignaturesByteAnalysis"
          /\ out' = Append(out, "Warning: error in pdfcpu analysis")
          /\ UNCHANGED <<ctx, info>>
     ELSE /\ pc' = "detectSignatureFields"
          /\ ctx' = Docs[file.doc]
          /\ info' = [info EXCEPT !.IsEncrypted = Docs[file.doc].E]
          /\ UNCHANGED out
  /\ UNCHANGED <<file, hasSignatureFields, raw, results, exitCode, answers, done, calls>>

\* analyzePDFCPU up to the call of analyzeDigitalSignatures
ReadContextFile ==
  /\ pc = "analyzePDFCPU"
  /\ IF file.doc = 0
     THEN /\ pc' = "analyzeLedongthuc"
          /\ out' = Append(out, "Warning: error in pdfcpu analysis")
          /\ UNCHANGED <<ctx, info>>
     ELSE /\ pc' = "detectSignatureFields"
          /\ ctx' = Docs[file.doc]
          /\ info' = [info EXCEPT !.IsEncrypted = Docs[file.doc].E]
          /\ UNCHANGED out
  /\ UNCHANGED <<file, hasSignatureFields, raw, results, exitCode, answers, done, calls>>

(***************************************************************************)
(* analyzeDigitalSignatures                                                *)
(***************************************************************************)
\* DetectSignatureFields followed by the byte scan whatever Stage A found
DetectSignatureFields_AlwaysScan ==
  /\ pc = "detectSignatureFields"
  /\ LET r == detectSignatureFields(ctx, info)
     IN  /\ hasSignatureFields' = r.found
         /\ info' = r.info
         /\ pc' = "detectSignaturesByteAnalysis"
  /\ calls' = Append(calls, "detectSignatureFields")
  /\ UNCHANGED <<file, ctx, raw, results, out, exitCode, answers, done>>

\* Stage A: hasSignatureFields := pa.detectSignatureFields(ctx, info)
DetectSignatureFields ==
  /\ pc = "detectSignatureFields"
  /\ LET r == detectSignatureFields(ctx, info)
     IN  /\ hasSignatureFields' = r.found
         /\ info' = r.info
         /\ pc' = IF r.found THEN "ValidateSignatures" ELSE "detectSignaturesByteAnalysis"
  /\ calls' = Append(calls, "detectSignatureFields")
  /\ UNCHANGED <<file, ctx, raw, results, out, exitCode, answers, done>>

\* AdoptByteAnalysis with the test of err inverted
AdoptByteAnalysis_ErrInverted(r, inf) ==
  IF r.err \/ r.has
  THEN [inf EXCEPT !.HasDigitalSignatures = TRUE, !.SignatureCount = r.count]
  ELSE inf

\* what the engine does with the return of the byte scan
AdoptByteAnalysis(r, inf) ==
  IF ~r.err /\ r.has
  THEN [inf EXCEPT !.HasDigitalSignatures = TRUE, !.SignatureCount = r.count]
  ELSE inf

\* Stage B: the byte scan, run when Stage A found nothing
DetectSignaturesByteAnalysis ==
  /\ pc = "detectSignaturesByteAnalysis"
  /\ \E read \in {ReadOk(file.content), ReadError} :
       LET r == detectSignaturesByteAnalysis(read)
       IN  /\ raw' = [called |-> TRUE, has |-> r.has, count |-> r.count, err |-> r.err]
           /\ info' = AdoptByteAnalysis(r, info)
           /\ hasSignatureFields' = IF ~r.err /\ r.has THEN TRUE ELSE hasSignatureFields
           /\ answers' = Append(answers, read.ok)
  /\ pc' = "ValidateSignatures"
  /\ calls' = Append(calls, "detectSignaturesByteAnalysis")
  /\ UNCHANGED <<file, ctx, results, out, exitCode, done>>

\* KeepCoarseVerdict that always falls back to "no signatures"
KeepCoarseVerdict_Regress(found, inf) ==
  [inf EXCEPT !.HasDigitalSignatures = FALSE, !.SignatureCount = 0]

\* KeepCoarseVerdict that reports signatures whatever was found
KeepCoarseVerdict_Unconditional(found, inf) ==
  [inf EXCEPT !.HasDigitalSignatures = TRUE]

\* KeepCoarseVerdict that assumes one signature when something was found
KeepCoarseVerdict_CountOne(found, inf) ==
  IF found
  THEN [inf EXCEPT !.HasDigitalSignatures = TRUE, !.SignatureCount = 1]
  ELSE [inf EXCEPT !.HasDigitalSignatures = FALSE, !.SignatureCount = 0]

\* info after a validation that failed or returned no result
KeepCoarseVerdict(found, inf) ==
  IF found
  THEN [inf EXCEPT !.HasDigitalSignatures = TRUE]
  ELSE [inf EXCEPT !.HasDigitalSignatures = FALSE, !.SignatureCount = 0]

\* AdoptValidation that merges the count as max(existing, candidate)
AdoptValidation_Max(res, inf) ==
  [inf EXCEPT !.HasDigitalSignatures = TRUE,
              !.SignatureCount = IF Len(res) > @ THEN Len(res) ELSE @,
              !.Signatures = << >>]

\* info after a validation that returned results, before the loop over them
AdoptValidation(res, inf) ==
  [inf EXCEPT !.HasDigitalSignatures = TRUE,
              !.SignatureCount = Len(res),
              !.Signatures = << >>]

\* Stage C: api.ValidateSignatures and the branches on its return
ValidateSignatures ==
  /\ pc = "ValidateSignatures"
  /\ IF file.val.err
     THEN /\ out' = Append(out, "Warning: error validating signatures")
          /\ info' = KeepCoarseVerdict(hasSignatureFields, info)
          /\ pc' = "analyzeLedongthuc"
          /\ UNCHANGED results
     ELSE IF Len(file.val.results) = 0
     THEN /\ info' = KeepCoarseVerdict(hasSignatureFields, info)
          /\ pc' = "analyzeLedongthuc"
          /\ UNCHANGED <<out, results>>
     ELSE /\ info' = AdoptValidation(file.val.results, info)
          /\ results' = file.val.results
          /\ pc' = "analyzeTimestamp"
          /\ UNCHANGED out
  /\ calls' = Append(calls, "ValidateSignatures")
  /\ UNCHANGED <<file, ctx, hasSignatureFields, raw, exitCode, answers, done>>

\* StatusOf with the codes shifted by one
StatusOf_Shifted(status) ==
  IF status = 0 THEN "Valid"
  ELSE IF status = 1 THEN "Invalid"
  ELSE "Unknown"

\* the switch on result.Status
StatusOf(status) ==
  IF status = 1 THEN "Valid"
  ELSE IF status = 2 THEN "Invalid"
  ELSE "Unknown"

\* sigInfo as built from one validation result, before analyzeTimestamp
NewSignatureInfo(result) ==
  [FieldName |-> result.FieldName,
   IsCertified |-> result.Certified,
   IsValid |-> result.Status = 1,
   Status |-> StatusOf(result.Status),
   Type |-> IF result.Certified THEN "Certified" ELSE "Approval",
   HasTimestamp |-> FALSE,
   TimestampType |-> "",
   TimestampTime |-> << >>,
   TimestampAuthority |-> << >>,
   TimestampStatus |-> ""]

\* ProcessResult that appends the record before the timestamp is analysed
ProcessResult_AppendFirst ==
  /\ pc = "analyzeTimestamp"
  /\ \E read \in {ReadOk(file.content), ReadError} :
       /\ info' = [info EXCEPT !.Signatures = Append(@, NewSignatureInfo(Head(results)))]
       /\ answers' = Append(answers, read.ok)
  /\ results' = Tail(results)
  /\ pc' = IF Len(results) = 1 THEN "analyzeLedongthuc" ELSE "analyzeTimestamp"
  /\ UNCHANGED <<file, ctx, hasSignatureFields, raw, out, exitCode, done, calls>>

\* one iteration of the loop over results: build sigInfo, analyzeTimestamp, append
ProcessResult ==
  /\ pc = "analyzeTimestamp"
  /\ \E read \in {ReadOk(file.content), ReadError} :
       /\ info' = [info EXCEPT !.Signatures =
                     Append(@, analyzeTimestamp(read, NewSignatureInfo(Head(results))))]
       /\ answers' = Append(answers, read.ok)
  /\ results' = Tail(results)
  /\ pc' = IF Len(results) = 1 THEN "analyzeLedongthuc" ELSE "analyzeTimestamp"
  /\ UNCHANGED <<file, ctx, hasSignatureFields, raw, out, exitCode, done, calls>>

\* AnalyzeLedongthuc with the error returned to main as fatal
AnalyzeLedongthuc_Fatal ==
  /\ pc = "analyzeLedongthuc"
  /\ \E ok \in BOOLEAN :
       /\ answers' = Append(answers, ok)
       /\ IF ok
          THEN /\ pc' = "PrintReport"
               /\ UNCHANGED <<out, exitCode>>
          ELSE /\ pc' = "exit"
               /\ out' = Append(out, "Error analyzing PDF")
               /\ exitCode' = 1
  /\ UNCHANGED <<file, ctx, info, hasSignatureFields, raw, results, done, calls>>

\* analyzeLedongthuc: an error is only a warning
AnalyzeLedongthuc ==
  /\ pc = "analyzeLedongthuc"
  /\ \E ok \in BOOLEAN :
       /\ out' = IF ok THEN out ELSE Append(out, "Warning: error in ledongthuc analysis")
       /\ answers' = Append(answers, ok)
  /\ pc' = "PrintReport"
  /\ UNCHANGED <<file, ctx, info, hasSignatureFields, raw, results, exitCode, done, calls>>

\* boolToYesNo
boolToYesNo(b) == IF b THEN "Yes" ELSE "No"

\* a Go string as fmt prints it
RECURSIVE Text(_)
Text(s) == IF s = << >> THEN "" ELSE Head(s) \o Text(Tail(s))

\* the line of a field that is printed only when it is not empty
printIfNotEmpty(label, value) ==
  IF value # "" THEN <<label \o value>> ELSE << >>

\* printTechnicalInformation: the lines on encryption and signatures
printTechnicalInformation(inf) ==
  <<"TECHNICAL INFORMATION",
    "Is encrypted: " \o boolToYesNo(inf.IsEncrypted),
    "Has digital signatures: " \o boolToYesNo(inf.HasDigitalSignatures)>>
  \o (IF inf.HasDigitalSignatures
      THEN <<"Number of signatures: " \o ToString(inf.SignatureCount)>>
      ELSE << >>)

\* printDigitalSignatures: the lines of signature i of the detail form
printSignature(i, sig) ==
  <<"Signature " \o ToString(i) \o ":">>
  \o printIfNotEmpty("Field: ", sig.FieldName)
  \o <<"Type: " \o sig.Type,
       "Status: " \o sig.Status,
       "Valid: " \o boolToYesNo(sig.IsValid),
       "Certified: " \o boolToYesNo(sig.IsCertified),
       "Has timestamp: " \o boolToYesNo(sig.HasTimestamp)>>
  \o (IF sig.HasTimestamp
      THEN printIfNotEmpty("Timestamp type: ", sig.TimestampType)
           \o printIfNotEmpty("Timestamp time: ", Text(sig.TimestampTime))
           \o printIfNotEmpty("Timestamp authority: ", Text(sig.TimestampAuthority))
           \o printIfNotEmpty("Timestamp status: ", sig.TimestampStatus)
      ELSE << >>)

RECURSIVE printSignatures(_, _)
printSignatures(i, sigs) ==
  IF i > Len(sigs) THEN << >>
  ELSE printSignature(i, sigs[i]) \o printSignatures(i + 1, sigs)

\* the line of the count-only form that explains the missing details
ValidationFailedNote(n) ==
  "Found " \o ToString(n) \o " signature(s), but detailed validation failed due to encryption or security restrictions."

\* printDigitalSignatures that picks the form by the encryption of the document
printDigitalSignatures_ByEncryption(inf) ==
  <<"DIGITAL SIGNATURES",
    "Document has signatures: " \o boolToYesNo(inf.HasDigitalSignatures),
    "Number of signatures: " \o ToString(inf.SignatureCount)>>
  \o (IF inf.HasDigitalSignatures /\ ~inf.IsEncrypted
      THEN <<"Signature details:">> \o printSignatures(1, inf.Signatures)
      ELSE IF inf.HasDigitalSignatures
      THEN <<"Digital signature(s) detected in document.",
             ValidationFailedNote(inf.SignatureCount),
             "Signature validation requires:">>
      ELSE <<"This document does not have digital signatures.",
             "To digitally sign a PDF, you can use:">>)

\* printDigitalSignatures without the count-only form
printDigitalSignatures_NoFallback(inf) ==
  <<"DIGITAL SIGNATURES",
    "Document has signatures: " \o boolToYesNo(inf.HasDigitalSignatures),
    "Number of signatures: " \o ToString(inf.SignatureCount)>>
  \o (IF inf.HasDigitalSignatures /\ Len(inf.Signatures) > 0
      THEN <<"Signature details:">> \o printSignatures(1, inf.Signatures)
      ELSE <<"This document does not have digital signatures.",
             "To digitally sign a PDF, you can use:">>)

\* printDigitalSignatures
printDigitalSignatures(inf) ==
  <<"DIGITAL SIGNATURES",
    "Document has signatures: " \o boolToYesNo(inf.HasDigitalSignatures),
    "Number of signatures: " \o ToString(inf.SignatureCount)>>
  \o (IF inf.HasDigitalSignatures /\ Len(inf.Signatures) > 0
      THEN <<"Signature details:">> \o printSignatures(1, inf.Signatures)
      ELSE IF inf.HasDigitalSignatures
      THEN <<"Digital signature(s) detected in document.",
             ValidationFailedNote(inf.SignatureCount),
             "Signature validation requires:">>
      ELSE <<"This document does not have digital signatures.",
             "To digitally sign a PDF, you can use:">>)

\* the lines PrintReport prints, section by section
Report(inf) ==
  <<"PDF ANALYSIS REPORT", "FILE INFORMATION", "DOCUMENT METADATA">>
  \o printTechnicalInformation(inf)
  \o (IF inf.IsEncrypted THEN <<"SECURITY INFORMATION">> ELSE << >>)
  \o <<"CONTENT INFORMATION">>
  \o printDigitalSignatures(inf)
  \o <<"Analysis completed at: ">>

\* PrintReport, then main returns
PrintReport ==
  /\ pc = "PrintReport"
  /\ out' = out \o Report(info)
  /\ exitCode' = 0
  /\ pc' = "exit"
  /\ UNCHANGED <<file, ctx, info, hasSignatureFields, raw, results, answers, done, calls>>

Next ==
  \/ Main
  \/ GetFileInfo
  \/ ReadContextFile
  \/ DetectSignatureFields
  \/ DetectSignaturesByteAnalysis
  \/ ValidateSignatures
  \/ ProcessResult
  \/ AnalyzeLedongthuc
  \/ PrintReport

Spec == Init /\ [][Next]_vars

(***************************************************************************)
(* One PDFAnalyzer used for several files: AnalyzePDF is called again     *)
(* after it returned.                                                      *)
(***************************************************************************)
\* the files the analyzer is reused on: a scan count of 3, a scan count of 1,
\* a validated file with a timestamp, a byte-scan hit and an unreadable document
ReuseFiles ==
  { [content |-> Join(<<1>>), doc |-> 4, val |-> ValidationError],
    [content |-> Join(<<1>>), doc |-> 3, val |-> [err |-> FALSE, results |-> << >>]],
    [content |-> Join(<<12, 13>>), doc |-> PlainDoc, val |-> CertifiedValid],
    [content |-> Join(<<2, 3, 4>>), doc |-> PlainDoc, val |-> ValidationError],
    [content |-> Join(<<1>>), doc |-> 0, val |-> ValidationError] }

\* AnalyzePDF called again with info kept in the analyzer instead of built anew
AnalyzeAgain_SharedInfo ==
  /\ pc = "PrintReport"
  /\ Len(done) < MaxCalls - 1
  /\ done' = Append(done, [file |-> file, answers |-> answers, info |-> info])
  /\ file' \in ReuseFiles
  /\ answers' = << >>
  /\ ctx' = NoContext
  /\ hasSignatureFields' = FALSE
  /\ raw' = NotCalled
  /\ results' = << >>
  /\ calls' = << >>
  /\ pc' = "getFileInfo"
  /\ UNCHANGED <<info, out, exitCode>>

\* AnalyzePDF returned info; the caller calls it again: info := &PDFInfo{},
\* and the locals of the earlier call are gone
AnalyzeAgain ==
  /\ pc = "PrintReport"
  /\ Len(done) < MaxCalls - 1
  /\ done' = Append(done, [file |-> file, answers |-> answers, info |-> info])
  /\ file' \in ReuseFiles
  /\ info' = NewPDFInfo
  /\ answers' = << >>
  /\ ctx' = NoContext
  /\ hasSignatureFields' = FALSE
  /\ raw' = NotCalled
  /\ results' = << >>
  /\ calls' = << >>
  /\ pc' = "getFileInfo"
  /\ UNCHANGED <<out, exitCode>>

InitReuse == Init /\ file \in ReuseFiles

NextReuse == Next \/ AnalyzeAgain

SpecReuse == InitReuse /\ [][NextReuse]_vars

(***************************************************************************)
(* The locator of pdf-info.go.  Its detectSignatureFields has the text of  *)
(* the one in signatures.go and calls the processAcroForm of pdf-info.go,  *)
(* which walks the Fields array.  The specification starts where           *)
(* analyzeDigitalSignatures of pdf-info.go calls the locator and ends      *)
(* when the locator has returned.                                          *)
(***************************************************************************)
\* Stage A of pdf-info.go: hasSignatureFields := pa.detectSignatureFields(ctx, info)
DetectSignatureFieldsPdfInfo ==
  /\ pc = "detectSignatureFields"
  /\ LET r == detectSignatureFieldsPdfInfo(ctx, info)
     IN  /\ hasSignatureFields' = r.found
         /\ info' = r.info
         /\ pc' = IF r.found THEN "ValidateSignatures" ELSE "detectSignaturesByteAnalysis"
  /\ calls' = Append(calls, "detectSignatureFields")
  /\ UNCHANGED <<file, ctx, raw, results, out, exitCode, answers, done>>

\* the call of analyzeDigitalSignatures: the document of the file is open,
\* info is new but for IsEncrypted
InitPdfInfo ==
  /\ pc = "detectSignatureFields"
  /\ file \in { f \in Files : f.doc >= 1 }
  /\ ctx = Docs[file.doc]
  /\ info = [NewPDFInfo EXCEPT !.IsEncrypted = Docs[file.doc].E]
  /\ hasSignatureFields = FALSE
  /\ raw = NotCalled
  /\ results = << >>
  /\ out = << >>
  /\ exitCode = -1
  /\ answers = <<TRUE>>
  /\ done = << >>
  /\ calls = << >>

NextPdfInfo == DetectSignatureFieldsPdfInfo

SpecPdfInfo == InitPdfInfo /\ [][NextPdfInfo]_vars

(***************************************************************************)
(* Properties.                                                             *)
(***************************************************************************)
\* "2025-06-06 15:58:27"
Str_ScenarioTime == <<"2","0","2","5","-","0","6","-","0","6"," ","1","5",":","5","8",":","2","7">>
\* "D:20250606155827"
Str_ScenarioDate == <<"D",":","2","0","2","5","0","6","0","6","1","5","5","8","2","7">>

\* AnalyzePDF has returned info to main after analyzeDigitalSignatures ran
SignaturesAnalysed ==
  /\ file.doc # 0
  /\ \/ pc \in {"analyzeLedongthuc", "PrintReport"}
     \/ pc = "exit" /\ exitCode = 0

\* AnalyzePDF has returned info to main
Returned == pc = "PrintReport" \/ (pc = "exit" /\ exitCode = 0)

ValidationFailed == file.val.err \/ Len(file.val.results) = 0

\* the count Stage A or Stage B recorded before the validation
ProvisionalCount ==
  IF raw.called THEN raw.count
  ELSE detectSignatureFields(ctx, NewPDFInfo).info.SignatureCount

\* C1: when the validation returns N >= 1 results the analysis ends with
\* HasDigitalSignatures, SignatureCount = N and N records, record i built
\* from result i, whatever Stage A or Stage B had recorded.
C1_ValidationIsAuthoritative ==
  (SignaturesAnalysed /\ ~file.val.err /\ Len(file.val.results) >= 1) =>
    /\ info.HasDigitalSignatures
    /\ info.SignatureCount = Len(file.val.results)
    /\ Len(info.Signatures) = Len(file.val.results)
    /\ \A i \in 1..Len(info.Signatures) :
         /\ info.Signatures[i].FieldName = file.val.results[i].FieldName
         /\ info.Signatures[i].IsCertified = file.val.results[i].Certified

\* an encrypted document for which Stage A recorded 3 and the validation returned 2
C1_Witness ==
  /\ pc = "exit" /\ exitCode = 0
  /\ info.IsEncrypted
  /\ ProvisionalCount = 3
  /\ Len(file.val.results) = 2
  /\ info.SignatureCount = 2
  /\ Len(info.Signatures) = 2

\* C2: when the validation fails or returns nothing and Stage A or Stage B
\* found signatures, the result has HasDigitalSignatures, the count of
\* Stage A/B (at least 1) and no records.
C2_CoarseVerdictKept ==
  (SignaturesAnalysed /\ ValidationFailed /\ hasSignatureFields) =>
    /\ info.HasDigitalSignatures
    /\ info.SignatureCount >= 1
    /\ info.SignatureCount = ProvisionalCount
    /\ info.Signatures = << >>

\* the encrypted document in which the scan counts one object, the
\* validation failing
C2_Witness ==
  /\ pc = "exit" /\ exitCode = 0
  /\ file.doc = 3 /\ info.IsEncrypted
  /\ file.val.err
  /\ info.HasDigitalSignatures
  /\ info.SignatureCount = 1
  /\ info.Signatures = << >>

\* C3: in the PDFInfo AnalyzePDF returns, HasDigitalSignatures holds exactly
\* when SignatureCount is positive, also when the document cannot be opened.
C3_HasIffCountPositive ==
  Returned => (info.HasDigitalSignatures <=> info.SignatureCount > 0)

\* returned after the scan found nothing, the catalog indicator counted as one
\* signature and the validation failed
C3_Witness ==
  /\ pc = "exit" /\ exitCode = 0
  /\ file.doc = 7
  /\ file.val.err
  /\ XRefScan(ctx, 1) = 0
  /\ info.HasDigitalSignatures
  /\ info.SignatureCount = 1

\* C4: when Stage A finds nothing, the byte scan finds no pattern or cannot
\* read the file, and the validation fails or returns nothing, the result is
\* no signatures, count 0 and no records.
C4_NothingFound ==
  (SignaturesAnalysed /\ ValidationFailed /\ raw.called /\ (raw.err \/ raw.count = 0)) =>
    /\ ~info.HasDigitalSignatures
    /\ info.SignatureCount = 0
    /\ info.Signatures = << >>

\* a file without markers and without AcroForm, read by the byte scan
C4_Witness ==
  /\ pc = "exit" /\ exitCode = 0
  /\ file.doc = PlainDoc
  /\ file.content = Join(<<1>>)
  /\ file.val.err
  /\ raw.called /\ ~raw.err
  /\ ~info.HasDigitalSignatures

\* a corroborating pattern or a fallback marker occurs in content
Corroborated(content) ==
  \/ \E k \in 3..Len(patterns) : Contains(content, patterns[k])
  \/ \E k \in 1..Len(sigDictPatterns) : Contains(content, sigDictPatterns[k])

\* C5: the byte scan returns the number of /Type/Sig plus the number of
\* /FT/Sig when that sum is positive; otherwise 1 if a corroborating pattern
\* or a fallback marker occurs, else 0.
C5_ByteScanCount ==
  (raw.called /\ ~raw.err) =>
    LET authoritative == Count(file.content, Str_TypeSig) + Count(file.content, Str_FTSig)
    IN  raw.count = IF authoritative > 0 THEN authoritative
                    ELSE IF Corroborated(file.content) THEN 1
                    ELSE 0

\* /Type/Sig twice and /FT/Sig once: the byte scan returned 3
C5_Witness ==
  /\ raw.called /\ ~raw.err
  /\ Count(file.content, Str_TypeSig) = 2
  /\ Count(file.content, Str_FTSig) = 1
  /\ raw.count = 3

\* C6: the byte scan returns hasSignatures = (count > 0), and (false, 0, err)
\* on a read error; on that error the engine leaves HasDigitalSignatures and
\* SignatureCount as they were and goes on to the validation.
C6_ByteScanErrorIgnored ==
  [][pc = "detectSignaturesByteAnalysis" =>
       /\ raw'.called
       /\ ~raw'.err => (raw'.has <=> raw'.count > 0)
       /\ raw'.err =>
            /\ ~raw'.has
            /\ raw'.count = 0
            /\ info' = info
            /\ hasSignatureFields' = hasSignatureFields
            /\ pc' = "ValidateSignatures"
            /\ exitCode' = exitCode]_vars

\* the byte scan failed to read a file that has signature markers
C6_Witness ==
  /\ pc = "ValidateSignatures"
  /\ raw.called /\ raw.err
  /\ Count(file.content, Str_TypeSig) > 0
  /\ ~info.HasDigitalSignatures
  /\ info.SignatureCount = 0

TimestampTypes ==
  {"RFC3161", "PKCS#7", "TSA", "Serpro TSA", "ICP-Brasil", "Embedded", "Standard"}

TimestampWellFormed(sigInfo) ==
  IF sigInfo.HasTimestamp
  THEN /\ sigInfo.TimestampStatus = "Present"
       /\ sigInfo.TimestampType \in TimestampTypes
  ELSE /\ sigInfo.TimestampType = ""
       /\ sigInfo.TimestampTime = << >>
       /\ sigInfo.TimestampAuthority = << >>
       /\ sigInfo.TimestampStatus = "None"

\* sigInfo with timestamp fields left over from an earlier use
Dirty(sigInfo) ==
  [sigInfo EXCEPT !.HasTimestamp = TRUE,
                  !.TimestampType = "RFC3161",
                  !.TimestampTime = Str_ScenarioTime,
                  !.TimestampAuthority = Str_Unknown,
                  !.TimestampStatus = "Present"]

\* C7: after analyzeTimestamp a record without timestamp has empty type,
\* time and authority and status "None", whatever it held before; a record
\* with timestamp has status "Present" and one of the seven types.
C7_TimestampFields ==
  /\ \A i \in 1..Len(info.Signatures) : TimestampWellFormed(info.Signatures[i])
  /\ pc = "analyzeTimestamp" =>
       \A read \in {ReadOk(file.content), ReadError} :
         TimestampWellFormed(analyzeTimestamp(read, Dirty(NewSignatureInfo(Head(results)))))

\* a stored record for which the read of a file with a timestamp pattern failed
C7_Witness ==
  /\ Len(info.Signatures) >= 1
  /\ ~info.Signatures[1].HasTimestamp
  /\ info.Signatures[1].TimestampStatus = "None"
  /\ FirstMatch(file.content, timestampPatterns) # 0

\* record i of a certifying signature, in a file that contains Serpro and the date
ScenarioOneRecord(i) ==
  /\ file.val.results[i].Certified
  /\ info.Signatures[i].HasTimestamp
  /\ Contains(file.content, Str_Serpro)
  /\ Contains(file.content, Str_ScenarioDate)

ScenarioOneFields(i) ==
  /\ info.Signatures[i].Type = "Certified"
  /\ info.Signatures[i].TimestampType = "Serpro TSA"
  /\ info.Signatures[i].TimestampTime = Str_ScenarioTime

\* C8 as stated: a certifying signature in a file that contains Serpro and
\* the date D:20250606155827 gives Certified, Serpro TSA, 2025-06-06 15:58:27.
C8_Original ==
  \A i \in 1..Len(info.Signatures) : ScenarioOneRecord(i) => ScenarioOneFields(i)

\* C8: a certifying signature in a file that contains Serpro and none of the
\* timestamp patterns listed before it, and whose first D:202 is the date
\* D:20250606155827, gives Certified, Serpro TSA, 2025-06-06 15:58:27.
C8_SerproScenario ==
  \A i \in 1..Len(info.Signatures) :
    ( /\ ScenarioOneRecord(i)
      /\ \A k \in 1..9 : ~Contains(file.content, timestampPatterns[k])
      /\ Index(file.content, timePatterns[1]) = Index(file.content, Str_ScenarioDate) )
    => ScenarioOneFields(i)

\* the record of the file made of Serpro and the date
C8_Witness ==
  /\ Len(info.Signatures) = 1
  /\ file.content = Join(<<12, 13>>)
  /\ ScenarioOneRecord(1)
  /\ ScenarioOneFields(1)

\* C9: with a timestamp present, the time is "Unknown" exactly when neither
\* D:202 nor D:201 occurs and the authority is "Unknown" exactly when no
\* authority pattern occurs; /ByteRange alone gives Embedded, Unknown, Unknown.
C9_UnknownTimeAndAuthority ==
  \A i \in 1..Len(info.Signatures) :
    LET sigInfo == info.Signatures[i]
        noTime == \A k \in 1..Len(timePatterns) : ~Contains(file.content, timePatterns[k])
        noAuthority == \A k \in 1..Len(authorityPatterns) :
                          ~Contains(file.content, authorityPatterns[k])
        onlyByteRange == /\ FirstMatch(file.content, timestampPatterns) = Len(timestampPatterns)
                         /\ noTime
                         /\ noAuthority
    IN  sigInfo.HasTimestamp =>
          /\ sigInfo.TimestampTime = Str_Unknown <=> noTime
          /\ sigInfo.TimestampAuthority = Str_Unknown <=> noAuthority
          /\ onlyByteRange =>
               /\ sigInfo.TimestampType = "Embedded"
               /\ sigInfo.TimestampTime = Str_Unknown
               /\ sigInfo.TimestampAuthority = Str_Unknown

\* the record of a file whose only marker is /ByteRange
C9_Witness ==
  /\ Len(info.Signatures) = 1
  /\ file.content = Join(<<14>>)
  /\ info.Signatures[1].HasTimestamp
  /\ info.Signatures[1].TimestampType = "Embedded"
  /\ info.Signatures[1].TimestampTime = Str_Unknown
  /\ info.Signatures[1].TimestampAuthority = Str_Unknown

\* C10: a record built from a validation result has Status Valid for code 1,
\* Invalid for code 2 and Unknown for any other code, IsValid exactly when
\* Status is Valid, and Type Certified exactly when IsCertified, else Approval.
C10_StatusAndType ==
  \A i \in 1..Len(info.Signatures) :
    LET sigInfo == info.Signatures[i]
        code == file.val.results[i].Status
    IN  /\ sigInfo.Status \in {"Valid", "Invalid", "Unknown"}
        /\ sigInfo.Status = "Valid" <=> code = 1
        /\ sigInfo.Status = "Invalid" <=> code = 2
        /\ sigInfo.IsValid <=> sigInfo.Status = "Valid"
        /\ sigInfo.IsCertified <=> file.val.results[i].Certified
        /\ sigInfo.Type = "Certified" <=> sigInfo.IsCertified
        /\ sigInfo.Type = "Approval" <=> ~sigInfo.IsCertified

\* a certifying signature with a status code that is neither valid nor invalid
C10_Witness ==
  /\ Len(info.Signatures) >= 1
  /\ file.val.results[1].Status = 3
  /\ info.Signatures[1].Status = "Unknown"
  /\ ~info.Signatures[1].IsValid
  /\ info.Signatures[1].Type = "Certified"

\* C11: a call of AnalyzePDF that returns gives the same info as every
\* earlier call, with the same analyzer, on the same file with the same
\* answers of the collaborators, whatever was analysed in between.
C11_SameFileSameResult ==
  pc = "PrintReport" =>
    \A i \in 1..Len(done) :
      (done[i].file = file /\ done[i].answers = answers) => done[i].info = info

\* the third call returns for the file of the first call, after a second
\* call on another file that recorded a larger count
C11_Witness ==
  /\ pc = "PrintReport"
  /\ Len(done) = 2
  /\ done[1].file = file
  /\ done[1].answers = answers
  /\ done[2].file # file
  /\ info.HasDigitalSignatures
  /\ done[2].info.SignatureCount > info.SignatureCount

\* the line was printed
Printed(line) == \E i \in 1..Len(out) : out[i] = line

\* how many times the line was printed
Occurrences(line) == Cardinality({ i \in 1..Len(out) : out[i] = line })

\* main was given a path
PathGiven == ~Printed("Usage: go run . <pdf_path>")

\* getFileInfo was called and returned no error
FileInfoRead == Len(answers) >= 1 /\ answers[1]

\* getFileInfo was called and returned an error
FileInfoFailed == Len(answers) >= 1 /\ ~answers[1]

\* pdf.Open was called and returned an error
TextExtractionFailed ==
  pc \in {"PrintReport", "exit"} /\ Len(answers) >= 2 /\ ~answers[Len(answers)]

\* the report from its header to its footer, with the signature section
CompleteReport ==
  /\ Occurrences("PDF ANALYSIS REPORT") = 1
  /\ Occurrences("DIGITAL SIGNATURES") = 1
  /\ Occurrences("Analysis completed at: ") = 1
  /\ out[Len(out)] = "Analysis completed at: "

\* C12 as stated: every run that was given a path ends with a complete report.
C12_Original ==
  (pc = "exit" /\ PathGiven) => (exitCode = 0 /\ CompleteReport)

\* C12: a run that was given a path whose file information can be read ends
\* with exit status 0 and a complete report, whichever of the document
\* model, the byte scan, the validation and the text extraction fails; no
\* exit status is set and no line of the report is printed before that.
C12_ReportUnlessNoFileInfo ==
  /\ (pc = "exit" /\ FileInfoRead) => (exitCode = 0 /\ CompleteReport)
  /\ (pc # "exit") => (exitCode = -1 /\ ~Printed("PDF ANALYSIS REPORT"))

\* the byte scan, the validation and the text extraction all failed and the
\* report was printed
C12_Witness ==
  /\ pc = "exit"
  /\ FileInfoRead
  /\ raw.err
  /\ file.val.err
  /\ TextExtractionFailed
  /\ CompleteReport

\* C13: without a path the run prints the usage message, no report, and
\* exits non-zero; when getFileInfo fails it prints no report and exits
\* non-zero; otherwise a failure of the pdfcpu analysis or of the text
\* extraction prints one warning each and the report header is printed with
\* exit status 0.
C13_ExitStatusAndWarnings ==
  pc = "exit" =>
    /\ ~PathGiven =>
         (exitCode # 0 /\ exitCode # -1 /\ ~Printed("PDF ANALYSIS REPORT"))
    /\ FileInfoFailed =>
         (exitCode # 0 /\ exitCode # -1 /\ ~Printed("PDF ANALYSIS REPORT"))
    /\ (PathGiven /\ FileInfoRead) =>
         /\ exitCode = 0
         /\ Printed("PDF ANALYSIS REPORT")
         /\ Occurrences("Warning: error in pdfcpu analysis")
              = (IF file.doc = 0 THEN 1 ELSE 0)
         /\ Occurrences("Warning: error in ledongthuc analysis")
              = (IF TextExtractionFailed THEN 1 ELSE 0)

\* a file that is no PDF: both analyses fail, two warnings, report, status 0
C13_Witness ==
  /\ pc = "exit"
  /\ file.doc = 0
  /\ TextExtractionFailed
  /\ Printed("Warning: error in pdfcpu analysis")
  /\ Printed("Warning: error in ledongthuc analysis")
  /\ Printed("PDF ANALYSIS REPORT")
  /\ exitCode = 0

\* the report says the document has signatures
ReportedSigned == pc = "exit" /\ Printed("Document has signatures: Yes")

\* the note of the count-only form was printed
NotePrinted == Printed(ValidationFailedNote(info.SignatureCount))

\* C14 as stated: the form of the section follows the encryption of the document.
C14_Original ==
  ReportedSigned =>
    /\ Printed("Is encrypted: Yes") => NotePrinted
    /\ Printed("Is encrypted: No") => Printed("Signature details:")

\* C14: for a document reported as having signatures the report shows the
\* note 'detailed validation failed due to encryption' when the validation
\* gave no signature record and 'Signature details:' when it gave records,
\* whether the document is encrypted or not.
C14_FormFollowsRecords ==
  ReportedSigned =>
    /\ Len(info.Signatures) = 0 =>
         (NotePrinted /\ ~Printed("Signature details:"))
    /\ Len(info.Signatures) > 0 =>
         (Printed("Signature details:") /\ ~NotePrinted)

\* an encrypted document whose signatures were validated: the details are shown
C14_Witness ==
  /\ ReportedSigned
  /\ Printed("Is encrypted: Yes")
  /\ Len(info.Signatures) > 0
  /\ Printed("Signature details:")

\* the three forms of the signature section
DetailsForm == Printed("Signature details:")
CountOnlyForm == Printed("Digital signature(s) detected in document.") /\ NotePrinted
NoneForm == Printed("This document does not have digital signatures.")

\* C15: a printed report has the 'DIGITAL SIGNATURES' section once, with the
\* details form iff signature records exist, the count-only note iff
\* HasDigitalSignatures holds without records, and the 'does not have
\* digital signatures' message iff HasDigitalSignatures is false.
C15_OneFormOfThree ==
  (pc = "exit" /\ Printed("PDF ANALYSIS REPORT")) =>
    /\ Occurrences("DIGITAL SIGNATURES") = 1
    /\ DetailsForm <=> Len(info.Signatures) > 0
    /\ CountOnlyForm <=> (info.HasDigitalSignatures /\ Len(info.Signatures) = 0)
    /\ NoneForm <=> ~info.HasDigitalSignatures
    /\ Cardinality({f \in {"details", "count", "none"} :
                      \/ f = "details" /\ DetailsForm
                      \/ f = "count" /\ CountOnlyForm
                      \/ f = "none" /\ NoneForm}) = 1

\* a document with signatures found by the locator and no validation result:
\* the count-only form
C15_Witness ==
  /\ pc = "exit"
  /\ Printed("PDF ANALYSIS REPORT")
  /\ info.HasDigitalSignatures
  /\ Len(info.Signatures) = 0
  /\ info.SignatureCount = 3
  /\ CountOnlyForm

\* analyzeDigitalSignatures has returned
StagesDone ==
  /\ Len(calls) >= 1
  /\ pc \in {"analyzeTimestamp", "analyzeLedongthuc", "PrintReport", "exit"}

\* how many times analyzeDigitalSignatures has called the stage
Called(stage) == Cardinality({ i \in 1..Len(calls) : calls[i] = stage })

\* C16: analyzeDigitalSignatures calls the locator first, the byte scan next
\* and only if the locator returned 'not found', and then the validation
\* service, once, whatever the locator and the byte scan returned.
C16_StageOrder ==
  /\ Called("ValidateSignatures") <= 1
  /\ Called("detectSignaturesByteAnalysis") <= 1
  /\ Called("detectSignaturesByteAnalysis") = 1 =>
       ~detectSignatureFields(ctx, NewPDFInfo).found
  /\ StagesDone =>
       /\ Called("ValidateSignatures") = 1
       /\ calls \in { <<"detectSignatureFields", "ValidateSignatures">>,
                      <<"detectSignatureFields", "detectSignaturesByteAnalysis",
                        "ValidateSignatures">> }

\* the byte scan ran, its read failed, and the validation was called once
C16_Witness ==
  /\ StagesDone
  /\ raw.called
  /\ raw.err
  /\ Called("ValidateSignatures") = 1

Max(a, b) == IF a > b THEN a ELSE b

\* the number of signature fields the AcroForm walk of pdf-info.go finds
AcroFormCount(c) ==
  IF /\ c.RootDict.t = "dict"
     /\ Found(c.RootDict, "AcroForm", "")
     /\ Entry(c.RootDict, "AcroForm", "").t # "nil"
  THEN AcroFormFieldCount(c, Entry(c.RootDict, "AcroForm", ""))
  ELSE 0

\* the validation returned results
ValidationSucceeds == ~file.val.err /\ Len(file.val.results) >= 1

\* C17 as stated: no step of an analysis pass lowers SignatureCount.
C17_Original ==
  [][info'.SignatureCount >= info.SignatureCount]_vars

\* C17: SignatureCount does not decrease in the locator, which leaves at
\* least the count of its scan, nor in the byte scan, nor when the
\* validation fails; only a validation that returns N >= 1 results lowers
\* it, to N.
C17_OnlyValidationLowers ==
  [][ /\ pc = "detectSignatureFields" =>
           info'.SignatureCount >= Max(info.SignatureCount, XRefScan(ctx, 1))
      /\ info'.SignatureCount < info.SignatureCount =>
           /\ pc = "ValidateSignatures"
           /\ ValidationSucceeds
           /\ info'.SignatureCount = Len(file.val.results) ]_vars

\* the validation returned fewer results than the locator had counted
C17_Witness ==
  /\ StagesDone
  /\ ValidationSucceeds
  /\ ~raw.called
  /\ info.SignatureCount = Len(file.val.results)
  /\ ProvisionalCount > info.SignatureCount

\* the locator has returned and nothing else has run
LocatorReturned == calls = <<"detectSignatureFields">>

\* C18 as stated: when the AcroForm walk finds k > 0 fields the locator
\* records the count k.
C18_Original ==
  (LocatorReturned /\ AcroFormCount(ctx) > 0) =>
    info.SignatureCount = AcroFormCount(ctx)

\* C18: the cross-reference scan runs whatever the AcroForm walk found and
\* the locator records the larger of the two counts; the catalog indicators
\* are consulted only when both found nothing, and then count as 1.
C18_LargerCountWins ==
  LocatorReturned =>
    LET k == AcroFormCount(ctx)
        s == XRefScan(ctx, 1)
    IN  /\ (k > 0 \/ s > 0) =>
             (hasSignatureFields /\ info.SignatureCount = Max(k, s))
        /\ (k = 0 /\ s = 0) =>
             /\ hasSignatureFields <=> hasSignatureIndicators(ctx)
             /\ info.SignatureCount = (IF hasSignatureFields THEN 1 ELSE 0)

\* the AcroForm walk found one field and the scan counted three
C18_Witness ==
  /\ LocatorReturned
  /\ AcroFormCount(ctx) = 1
  /\ XRefScan(ctx, 1) = 3
  /\ info.SignatureCount = 3

\* the loop over the results has ended
RecordsBuilt == pc = "analyzeLedongthuc" /\ Len(info.Signatures) >= 1

\* what ioutil.ReadFile answered to the timestamp scan of record i
ReadOfRecord(i) == answers[Len(answers) - Len(info.Signatures) + i]

\* the type each timestamp pattern stands for, in the order of the list
TypeOfPattern ==
  <<"RFC3161", "PKCS#7", "Standard", "Standard", "Standard", "Standard", "TSA",
    "Standard", "TSA", "Serpro TSA", "Serpro TSA", "ICP-Brasil", "Standard",
    "Standard", "Standard", "Embedded">>

\* the timestamp patterns that occur in the file
Occurring == { k \in 1..Len(timestampPatterns) : Contains(file.content, timestampPatterns[k]) }

\* C19: a timestamp scan that reads the file reports a timestamp iff some
\* timestamp pattern occurs in it, and the type is the one of the first
\* pattern of the list that occurs, whatever later patterns occur too.
C19_FirstPatternDecides ==
  RecordsBuilt =>
    \A i \in 1..Len(info.Signatures) :
      ReadOfRecord(i) =>
        /\ info.Signatures[i].HasTimestamp <=> Occurring # {}
        /\ Occurring # {} =>
             \E k \in Occurring :
               /\ \A j \in Occurring : k <= j
               /\ info.Signatures[i].TimestampType = TypeOfPattern[k]

\* the file holds '/TS' and 'Serpro': the type is the one of '/TS'
C19_Witness ==
  /\ RecordsBuilt
  /\ ReadOfRecord(1)
  /\ {4, 10} \subseteq Occurring
  /\ \A k \in Occurring : k >= 4
  /\ info.Signatures[1].TimestampType = "Standard"

Digits == {"0", "1", "2", "3", "4", "5", "6", "7", "8", "9"}

\* a string of the form YYYY-MM-DD HH:MM:SS
TimeForm(s) ==
  /\ Len(s) = 19
  /\ s[5] = "-" /\ s[8] = "-" /\ s[11] = " " /\ s[14] = ":" /\ s[17] = ":"
  /\ \A j \in (1..19) \ {5, 8, 11, 14, 17} : s[j] \in Digits

\* C20 as stated: the time of a timestamp is 'Unknown' or of the form
\* YYYY-MM-DD HH:MM:SS.
C20_Original ==
  RecordsBuilt =>
    \A i \in 1..Len(info.Signatures) :
      info.Signatures[i].HasTimestamp =>
        \/ info.Signatures[i].TimestampTime = Str_Unknown
        \/ TimeForm(info.Signatures[i].TimestampTime)

\* offset of the date the time is taken from: the first 'D:202', else the
\* first 'D:201', else -1
DateOffset ==
  IF Index(file.content, timePatterns[1]) # -1 THEN Index(file.content, timePatterns[1])
  ELSE Index(file.content, timePatterns[2])

\* byte j of the candidate, the bytes of the file from DateOffset on
Candidate(j) == file.content[DateOffset + 1 + j]

\* C20: the time of a timestamp is 'Unknown' when the file holds neither
\* 'D:202' nor 'D:201'; with at least 15 bytes from the first such date on it
\* is bytes 2..15 of them laid out as YYYY-MM-DD HH:MM:SS, seconds '00' when
\* there are only 15, which has that form when those bytes are digits; with
\* fewer than 15 bytes it is those bytes as they are.
C20_TimeFromFirstDate ==
  RecordsBuilt =>
    \A i \in 1..Len(info.Signatures) :
      info.Signatures[i].HasTimestamp =>
        LET time == info.Signatures[i].TimestampTime
            left == Len(file.content) - DateOffset
        IN  /\ DateOffset = -1 => time = Str_Unknown
            /\ (DateOffset # -1 /\ left < 15) =>
                 time = [j \in 1..left |-> Candidate(j - 1)]
            /\ (DateOffset # -1 /\ left >= 15) =>
                 /\ time = <<Candidate(2), Candidate(3), Candidate(4), Candidate(5), "-",
                             Candidate(6), Candidate(7), "-",
                             Candidate(8), Candidate(9), " ",
                             Candidate(10), Candidate(11), ":",
                             Candidate(12), Candidate(13), ":",
                             IF left >= 16 THEN Candidate(14) ELSE "0",
                             IF left >= 16 THEN Candidate(15) ELSE "0">>
                 /\ (\A j \in 2..(IF left >= 16 THEN 15 ELSE 13) : Candidate(j) \in Digits)
                      => TimeForm(time)

\* the file ends ten bytes after 'D:202': the time is those ten bytes
C20_Witness ==
  /\ RecordsBuilt
  /\ info.Signatures[1].HasTimestamp
  /\ DateOffset # -1
  /\ Len(file.content) - DateOffset = 10
  /\ Len(info.Signatures[1].TimestampTime) = 10

\* the offsets of the file at which pat occurs
Offsets(pat) == { o \in 0..(Len(file.content) - Len(pat)) : HasPrefixAt(file.content, pat, o) }

\* the smallest element of a non-empty set of numbers
Least(S) == CHOOSE a \in S : \A b \in S : a <= b

\* where the time candidate starts: at the first 'D:202', at the first
\* 'D:201' when there is no 'D:202', -1 without either
CandidateStart ==
  LET o202 == Offsets(<<"D", ":", "2", "0", "2">>)
      o201 == Offsets(<<"D", ":", "2", "0", "1">>)
  IN  IF o202 # {} THEN Least(o202)
      ELSE IF o201 # {} THEN Least(o201)
      ELSE -1

\* the up to 20 bytes of the file from offset start on
CandidateFrom(start) ==
  Slice(file.content, start,
        IF start + 20 > Len(file.content) THEN Len(file.content) ELSE start + 20)

\* C21: with a timestamp present the time candidate starts at the first
\* 'D:202', and at the first 'D:201' only without any 'D:202'; a candidate
\* of at least 15 bytes gives its bytes 2:6, 6:8, 8:10, 10:12, 12:14 and
\* 14:16 as year-month-day hour:minute:second, with seconds '00' when it has
\* exactly 15 bytes.
C21_PatternOrderAndOffsets ==
  RecordsBuilt =>
    LET start == CandidateStart
        cand == CandidateFrom(start)
        time == Slice(cand, 2, 6) \o <<"-">> \o Slice(cand, 6, 8) \o <<"-">>
                  \o Slice(cand, 8, 10) \o <<" ">> \o Slice(cand, 10, 12)
                  \o <<":">> \o Slice(cand, 12, 14) \o <<":">>
                  \o (IF Len(cand) = 15 THEN <<"0", "0">> ELSE Slice(cand, 14, 16))
    IN  \A i \in 1..Len(info.Signatures) :
          (info.Signatures[i].HasTimestamp /\ start # -1 /\ Len(cand) >= 15) =>
            info.Signatures[i].TimestampTime = time

\* 'D:2019' comes before 'D:20250606155827' in the file: the time is the
\* one of the later date
C21_Witness ==
  /\ RecordsBuilt
  /\ info.Signatures[1].HasTimestamp
  /\ Offsets(<<"D", ":", "2", "0", "1">>) # {}
  /\ Offsets(<<"D", ":", "2", "0", "2">>) # {}
  /\ Least(Offsets(<<"D", ":", "2", "0", "1">>)) < CandidateStart
  /\ info.Signatures[1].TimestampTime = Str_ScenarioTime

\* the authority patterns in the order in which they are tried
AuthorityOrder ==
  << <<"C","N","=">>, <<"O","=">>, <<"T","S","A">>,
     <<"T","i","m","e","S","t","a","m","p">>, <<"S","e","r","p","r","o">>,
     <<"I","C","P","-","B","r","a","s","i","l">>,
     <<"A","C"," ","T","i","m","e","s","t","a","m","p","i","n","g">>,
     <<"A","u","t","o","r","i","d","a","d","e"," ","C","e","r","t","i","f","i","c","a","d","o","r","a">>,
     <<"C","e","r","t","i","f","i","c","a","t","e"," ","A","u","t","h","o","r","i","t","y">> >>

\* the patterns of AuthorityOrder that occur in the file
AuthorityFound == { k \in 1..Len(AuthorityOrder) : Offsets(AuthorityOrder[k]) # {} }

\* the first pattern of AuthorityOrder that occurs in the file, and the
\* offset of its first occurrence
AuthorityPattern ==
  CHOOSE k \in 1..Len(AuthorityOrder) :
    /\ Offsets(AuthorityOrder[k]) # {}
    /\ \A j \in 1..(k - 1) : Offsets(AuthorityOrder[j]) = {}
AuthorityStart == Least(Offsets(AuthorityOrder[AuthorityPattern]))

\* the up to 80 bytes of the file from offset start on, up to their first
\* newline or null byte
AuthorityText(start) ==
  LET bytes == Slice(file.content, start,
                     IF start + 80 > Len(file.content) THEN Len(file.content)
                     ELSE start + 80)
      stops == { j \in 1..Len(bytes) : bytes[j] \in {"\n", "NUL"} }
  IN  IF stops = {} THEN bytes
      ELSE SubSeq(bytes, 1, Least(stops) - 1)

\* the authority a text gives: the Serpro label, the ICP-Brasil label, or the
\* text, cut to 40 bytes plus '...' when longer
AuthorityOf(text) ==
  IF Contains(text, <<"S","e","r","p","r","o">>)
  THEN <<"S","e","r","p","r","o"," ","-"," ","S","e","r","v","i","0xC3","0x83","0xC2","0xA7","o"," ","F","e","d","e","r","a","l"," ","d","e"," ","P","r","o","c","e","s","s","a","m","e","n","t","o"," ","d","e"," ","D","a","d","o","s">>
  ELSE IF Contains(text, <<"I","C","P","-","B","r","a","s","i","l">>)
  THEN <<"I","C","P","-","B","r","a","s","i","l"," ","C","e","r","t","i","f","i","c","a","t","e"," ","A","u","t","h","o","r","i","t","y">>
  ELSE IF Len(text) > 40
  THEN SubSeq(text, 1, 40) \o <<".", ".", ".">>
  ELSE text

\* C22 as stated: the authority comes from the up to 80 bytes that follow
\* the match of the first authority pattern that occurs, cut at the first
\* newline or null byte, labelled or cut to 40 bytes plus '...' ('Unknown'
\* when nothing is left).
C22_Original ==
  (/\ RecordsBuilt
   /\ \E i \in 1..Len(info.Signatures) : info.Signatures[i].HasTimestamp
   /\ AuthorityFound # {}) =>
      LET after == AuthorityStart + Len(AuthorityOrder[AuthorityPattern])
          text == AuthorityText(after)
          authority == IF text = << >> THEN <<"U","n","k","n","o","w","n">>
                       ELSE AuthorityOf(text)
      IN  \A i \in 1..Len(info.Signatures) :
            info.Signatures[i].HasTimestamp =>
              info.Signatures[i].TimestampAuthority = authority

\* C22: with a timestamp present and an authority pattern in the file, the
\* authority comes from the first pattern in list order that occurs: the up
\* to 80 bytes from the first byte of its first occurrence on, the pattern
\* included, cut at the first newline or null byte, give the Serpro label if
\* they contain 'Serpro', else the ICP-Brasil label if they contain
\* 'ICP-Brasil', else themselves, cut to 40 bytes plus '...' when longer.
C22_AuthorityFromFirstPattern ==
  (/\ RecordsBuilt
   /\ \E i \in 1..Len(info.Signatures) : info.Signatures[i].HasTimestamp
   /\ AuthorityFound # {}) =>
      LET authority == AuthorityOf(AuthorityText(AuthorityStart))
      IN  \A i \in 1..Len(info.Signatures) :
            info.Signatures[i].HasTimestamp =>
              info.Signatures[i].TimestampAuthority = authority

\* 'CN=AC' is followed by a null byte and 'Serpro': the authority is 'CN=AC',
\* the bytes from the match to the null byte, and not the Serpro label
C22_Witness ==
  /\ RecordsBuilt
  /\ Len(info.Signatures) >= 1
  /\ info.Signatures[1].HasTimestamp
  /\ AuthorityFound # {}
  /\ Len(file.content) >= 12
  /\ AuthorityOrder[AuthorityPattern] = <<"C", "N", "=">>
  /\ AuthorityStart = 0
  /\ file.content[6] = "NUL"
  /\ SubSeq(file.content, 7, 12) = <<"S","e","r","p","r","o">>
  /\ info.Signatures[1].TimestampAuthority = <<"C", "N", "=", "A", "C">>

\* the object a value stands for: itself, or what its reference resolves to
\* (nil when the reference cannot be resolved)
Resolved(c, o) ==
  IF o.t # "ref" THEN o
  ELSE IF o.v \in c.BadRefs THEN Nil
  ELSE TableObject(c, o.v)

\* the field classification of C23: FT = Sig, or Subtype Widget or Signature
\* with V or SigFlags, or a V entry that resolves to a dictionary
ClaimedSignatureField(c, d) ==
  \/ "FT" \in DOMAIN d.v /\ d.v["FT"] = Name("Sig")
  \/ /\ "Subtype" \in DOMAIN d.v
     /\ d.v["Subtype"] \in {Name("Widget"), Name("Signature")}
     /\ \/ "V" \in DOMAIN d.v /\ d.v["V"] # Nil
        \/ "SigFlags" \in DOMAIN d.v /\ d.v["SigFlags"] # Nil
  \/ "V" \in DOMAIN d.v /\ Resolved(c, d.v["V"]).t = "dict"

\* the entries of the Fields array of the AcroForm dictionary of c, the
\* array taken directly or through one reference
FieldEntries(c) ==
  IF c.RootDict.t # "dict" \/ "AcroForm" \notin DOMAIN c.RootDict.v THEN << >>
  ELSE LET acroForm == c.RootDict.v["AcroForm"]
       IN  IF acroForm.t # "dict" \/ "Fields" \notin DOMAIN acroForm.v THEN << >>
           ELSE LET fields == Resolved(c, acroForm.v["Fields"])
                IN  IF fields.t = "array" THEN fields.v ELSE << >>

\* the number of entries of the Fields array that C23 classifies as
\* signature fields
ClaimedFieldCount(c) ==
  Cardinality({ k \in 1..Len(FieldEntries(c)) :
                  /\ Resolved(c, FieldEntries(c)[k]).t = "dict"
                  /\ ClaimedSignatureField(c, Resolved(c, FieldEntries(c)[k])) })

\* C23: the AcroForm field walk returns the number of entries of the Fields
\* array whose dictionary has FT = Sig, or Subtype Widget or Signature with
\* a V or SigFlags entry, or a V entry that resolves to a dictionary; a V
\* entry that does not resolve to a dictionary does not make a field a
\* signature field.
C23_Original ==
  LocatorReturned =>
    /\ AcroFormCount(ctx) = ClaimedFieldCount(ctx)
    /\ (ClaimedFieldCount(ctx) = 0 /\ XRefScan(ctx, 1) = 0
          /\ ~hasSignatureIndicators(ctx)) => ~hasSignatureFields

\* the dictionaries of the object table of c, by object number
TableDicts(c) == { i \in 1..Len(c.XRefTable) : c.XRefTable[i].t = "dict" }

\* the objects with Type = Sig, those with FT = Sig, and those whose V is a
\* reference to a dictionary with the Filter of a signature handler
TypeSigObjects(c) ==
  { i \in TableDicts(c) :
      "Type" \in DOMAIN c.XRefTable[i].v /\ c.XRefTable[i].v["Type"] = Name("Sig") }
FTSigObjects(c) ==
  { i \in TableDicts(c) :
      "FT" \in DOMAIN c.XRefTable[i].v /\ c.XRefTable[i].v["FT"] = Name("Sig") }
SignedValueObjects(c) ==
  { i \in TableDicts(c) :
      /\ "V" \in DOMAIN c.XRefTable[i].v
      /\ c.XRefTable[i].v["V"].t = "ref"
      /\ LET sigDict == Resolved(c, c.XRefTable[i].v["V"])
         IN  /\ sigDict.t = "dict"
             /\ "Filter" \in DOMAIN sigDict.v
             /\ sigDict.v["Filter"].t = "name"
             /\ \/ sigDict.v["Filter"].v = <<"A","d","o","b","e",".","P","P","K","L","i","t","e">>
                \/ sigDict.v["Filter"].v = <<"A","d","o","b","e",".","P","P","K","M","S">>
                \/ Contains(sigDict.v["Filter"].v, <<"P", "K", "C", "S">>) }

\* C24 as stated: the cross-reference scan adds 1 for every object with
\* Type = Sig, 1 for every object with FT = Sig and 1 for every object whose
\* V refers to a dictionary with Filter Adobe.PPKLite, Adobe.PPKMS or a name
\* containing 'PKCS'; one object can add up to 3, and the count is never
\* below the number of objects that pass at least one check.
C24_Original ==
  LocatorReturned =>
    LET s == Cardinality(TypeSigObjects(ctx)) + Cardinality(FTSigObjects(ctx))
               + Cardinality(SignedValueObjects(ctx))
    IN  /\ XRefScan(ctx, 1) = s
        /\ s >= Cardinality(TypeSigObjects(ctx) \cup FTSigObjects(ctx)
                              \cup SignedValueObjects(ctx))
        /\ s > 0 => (hasSignatureFields /\ info.SignatureCount >= s)
        /\ (s > 0 /\ ClaimedFieldCount(ctx) = 0) => info.SignatureCount = s

\* the AcroForm dictionary of c, taken directly or through a reference, has
\* a SigFlags entry
AcroFormHasSigFlags(c) ==
  /\ c.RootDict.t = "dict"
  /\ "AcroForm" \in DOMAIN c.RootDict.v
  /\ Resolved(c, c.RootDict.v["AcroForm"]).t = "dict"
  /\ "SigFlags" \in DOMAIN Resolved(c, c.RootDict.v["AcroForm"]).v
  /\ Resolved(c, c.RootDict.v["AcroForm"]).v["SigFlags"] # Nil

\* the AcroForm walk and the cross-reference scan both found nothing
BothFoundZero(c) ==
  /\ ClaimedFieldCount(c) = 0
  /\ TypeSigObjects(c) \cup FTSigObjects(c) \cup SignedValueObjects(c) = {}

\* C25 as stated: when the AcroForm walk and the cross-reference scan both
\* found zero the locator reports 'found' with a count of exactly 1 if the
\* AcroForm dictionary, direct or behind a reference, has a SigFlags entry,
\* and 'not found' otherwise.
C25_Original ==
  LocatorReturned =>
    /\ (BothFoundZero(ctx) /\ AcroFormHasSigFlags(ctx)) =>
         /\ hasSignatureFields
         /\ info.HasDigitalSignatures
         /\ info.SignatureCount = 1
    /\ (BothFoundZero(ctx) /\ ~AcroFormHasSigFlags(ctx)) =>
         /\ ~hasSignatureFields
         /\ ~info.HasDigitalSignatures
         /\ info.SignatureCount = 0

\* the array the AcroForm walk goes through: what Entry("Fields", "", false)
\* gives in the direct dictionary that Entry("AcroForm", "", false) gives in
\* the catalog, the array taken directly or through one reference
WalkedFields(c) ==
  IF c.RootDict.t # "dict" \/ ~Found(c.RootDict, "AcroForm", "") THEN << >>
  ELSE LET acroForm == Entry(c.RootDict, "AcroForm", "")
       IN  IF acroForm.t # "dict" \/ ~Found(acroForm, "Fields", "") THEN << >>
           ELSE LET fields == Resolved(c, Entry(acroForm, "Fields", ""))
                IN  IF fields.t = "array" THEN fields.v ELSE << >>

\* the entries of that array that resolve to a dictionary
SoundFields(c) ==
  { k \in 1..Len(WalkedFields(c)) : Resolved(c, WalkedFields(c)[k]).t = "dict" }

\* the dictionaries of the object table that pass the first, the second and
\* the third check of the scan, each with the entry the scan reads
ScanTypeObjects(c) ==
  { i \in TableDicts(c) :
      /\ Found(c.XRefTable[i], "Type", "")
      /\ Entry(c.XRefTable[i], "Type", "") = Name("Sig") }
ScanFTObjects(c) ==
  { i \in TableDicts(c) :
      /\ Found(c.XRefTable[i], "FT", "")
      /\ Entry(c.XRefTable[i], "FT", "") = Name("Sig") }
ScanValueObjects(c) ==
  { i \in TableDicts(c) :
      /\ Found(c.XRefTable[i], "V", "")
      /\ Entry(c.XRefTable[i], "V", "").t = "ref"
      /\ LET sigDict == Resolved(c, Entry(c.XRefTable[i], "V", ""))
         IN  /\ sigDict.t = "dict"
             /\ Found(sigDict, "Filter", "")
             /\ Entry(sigDict, "Filter", "").t = "name"
             /\ \/ Entry(sigDict, "Filter", "").v
                     = <<"A","d","o","b","e",".","P","P","K","L","i","t","e">>
                \/ Entry(sigDict, "Filter", "").v
                     = <<"A","d","o","b","e",".","P","P","K","M","S">>
                \/ Contains(Entry(sigDict, "Filter", "").v, <<"P", "K", "C", "S">>) }

\* the dictionary of the catalog entry, direct or behind a reference that
\* resolves, has the entry that hasSignatureIndicators reads
IndicatorPresent(c) ==
  /\ c.RootDict.t = "dict"
  /\ Found(c.RootDict, "AcroForm", "")
  /\ LET acroForm == Resolved(c, Entry(c.RootDict, "AcroForm", ""))
     IN  /\ acroForm.t = "dict"
         /\ Found(acroForm, "SigFlags", "")
         /\ Entry(acroForm, "SigFlags", "") # Nil

\* something the locator meets fails to dereference or has an unexpected
\* type: the catalog entry, a field, an object of the table, or the entry of
\* an object of the table
Faulty(c) ==
  \/ /\ c.RootDict.t = "dict"
     /\ Found(c.RootDict, "AcroForm", "")
     /\ Resolved(c, Entry(c.RootDict, "AcroForm", "")).t # "dict"
  \/ SoundFields(c) # 1..Len(WalkedFields(c))
  \/ TableDicts(c) # 1..Len(c.XRefTable)
  \/ \E i \in TableDicts(c) :
       /\ Found(c.XRefTable[i], "V", "")
       /\ Resolved(c, Entry(c.XRefTable[i], "V", "")).t # "dict"

\* C26: a reference that fails to dereference and an object of an unexpected
\* type count as 'not a signature': the locator returns without an error or
\* a message, the analysis goes on, and the fields and objects that are
\* sound are counted as if the others were not there.
C26_FaultsAreSkipped ==
  (LocatorReturned /\ Faulty(ctx)) =>
    LET k == Cardinality({ j \in SoundFields(ctx) :
                             isSignatureField(Resolved(ctx, WalkedFields(ctx)[j])) })
        s == Cardinality(ScanTypeObjects(ctx)) + Cardinality(ScanFTObjects(ctx))
               + Cardinality(ScanValueObjects(ctx))
    IN  /\ pc \in {"ValidateSignatures", "detectSignaturesByteAnalysis"}
        /\ exitCode = -1
        /\ out = << >>
        /\ (k > 0 \/ s > 0) => (hasSignatureFields /\ info.SignatureCount = Max(k, s))
        /\ (k = 0 /\ s = 0) => (hasSignatureFields <=> IndicatorPresent(ctx))
        /\ pc = (IF hasSignatureFields THEN "ValidateSignatures"
                 ELSE "detectSignaturesByteAnalysis")

\* the first field fails to dereference, the second is a number, the two
\* fields after them are counted; the table has a number and an object whose
\* reference fails
C26_Witness ==
  /\ LocatorReturned
  /\ Len(WalkedFields(ctx)) = 4
  /\ SoundFields(ctx) = {3, 4}
  /\ TableDicts(ctx) # 1..Len(ctx.XRefTable)
  /\ \E i \in TableDicts(ctx) :
       /\ Found(ctx.XRefTable[i], "V", "")
       /\ Entry(ctx.XRefTable[i], "V", "").t = "ref"
       /\ Resolved(ctx, Entry(ctx.XRefTable[i], "V", "")) = Nil
  /\ hasSignatureFields
  /\ info.SignatureCount = 2
  /\ pc = "ValidateSignatures"

\* api.ReadContextFile was called and failed
ContextFailed == file.doc = 0 /\ Printed("Warning: error in pdfcpu analysis")

\* C27: when api.ReadContextFile fails no stage of the signature analysis
\* runs, neither the locator nor the byte scan nor the validation, and the
\* result has HasDigitalSignatures = false, SignatureCount = 0 and no
\* records, whatever bytes the file has.
C27_NoContextNoSignatures ==
  /\ file.doc = 0 => (calls = << >> /\ ~raw.called /\ ctx = NoContext)
  /\ ContextFailed =>
       /\ ~info.HasDigitalSignatures
       /\ info.SignatureCount = 0
       /\ info.Signatures = << >>
       /\ pc \in {"analyzeLedongthuc", "PrintReport", "exit"}

\* the report of a file with two '/Type/Sig' and '/FT/Sig' whose document
\* could not be opened
C27_Witness ==
  /\ ContextFailed
  /\ pc = "exit"
  /\ exitCode = 0
  /\ Offsets(<<"/","T","y","p","e","/","S","i","g">>) # {}
  /\ Offsets(<<"/","F","T","/","S","i","g">>) # {}
  /\ ~info.HasDigitalSignatures
  /\ info.SignatureCount = 0

\* the byte scan has returned and its result has been adopted or dropped
ByteScanReturned == calls = <<"detectSignatureFields", "detectSignaturesByteAnalysis">>

\* C28: a locator that returns 'not found' leaves HasDigitalSignatures false
\* and SignatureCount 0, so that the count the byte scan assigns is the
\* larger of the count before and its own; a locator that returns 'found'
\* has set HasDigitalSignatures and a SignatureCount of at least 1.
C28_LocatorFrame ==
  /\ LocatorReturned =>
       IF hasSignatureFields
       THEN info.HasDigitalSignatures /\ info.SignatureCount >= 1
       ELSE ~info.HasDigitalSignatures /\ info.SignatureCount = 0
                /\ info.Signatures = << >>
  /\ (ByteScanReturned /\ raw.has /\ ~raw.err) =>
       /\ info.HasDigitalSignatures
       /\ info.SignatureCount = raw.count
       /\ info.SignatureCount = Max(0, raw.count)

\* the locator found nothing in a document with an AcroForm and the byte
\* scan then counted three markers
C28_Witness ==
  /\ ByteScanReturned
  /\ raw.has
  /\ raw.count = 3
  /\ info.SignatureCount = 3
  /\ ~hasSignatureIndicators(ctx)
  /\ ctx.RootDict.t = "dict"
  /\ "AcroForm" \in DOMAIN ctx.RootDict.v

\* the five timestamp fields of a record
TimestampFields(sigInfo) ==
  <<sigInfo.HasTimestamp, sigInfo.TimestampType, sigInfo.TimestampTime,
    sigInfo.TimestampAuthority, sigInfo.TimestampStatus>>

\* the timestamp fields the whole file gives when it is read, and those of a
\* read that fails
FileTimestamp ==
  LET ts == detectTimestampByteAnalysis(ReadOk(file.content))
  IN  IF ts.has THEN <<TRUE, ts.type, ts.time, ts.authority, "Present">>
      ELSE <<FALSE, "", << >>, << >>, "None">>
NoTimestamp == <<FALSE, "", << >>, << >>, "None">>

\* C29 as stated: all the records of one analysis carry identical timestamp
\* fields.
C29_Original ==
  RecordsBuilt =>
    \A i, j \in 1..Len(info.Signatures) :
      TimestampFields(info.Signatures[i]) = TimestampFields(info.Signatures[j])

\* C29: every stored record is the record of its validation result and
\* carries the timestamp fields of the whole file if the read made for it
\* succeeded and those of 'no timestamp' if it failed; records whose reads
\* answered alike carry identical timestamp fields.
C29_TimestampOfTheFile ==
  RecordsBuilt =>
    /\ Len(info.Signatures) = Len(file.val.results)
    /\ LET whole == FileTimestamp
       IN  \A i \in 1..Len(info.Signatures) :
             /\ info.Signatures[i].FieldName = file.val.results[i].FieldName
             /\ TimestampFields(info.Signatures[i]) =
                  (IF ReadOfRecord(i) THEN whole ELSE NoTimestamp)
    /\ \A i, j \in 1..Len(info.Signatures) :
         (ReadOfRecord(i) = ReadOfRecord(j)) =>
           TimestampFields(info.Signatures[i]) = TimestampFields(info.Signatures[j])

\* two records of different fields, both read, with the same timestamp
C29_Witness ==
  /\ RecordsBuilt
  /\ Len(info.Signatures) = 2
  /\ ReadOfRecord(1) /\ ReadOfRecord(2)
  /\ info.Signatures[1].FieldName # info.Signatures[2].FieldName
  /\ info.Signatures[1].HasTimestamp
  /\ info.Signatures[2].TimestampTime = Str_ScenarioTime
  /\ TimestampFields(info.Signatures[1]) = TimestampFields(info.Signatures[2])

\* the number of bytes from the start of the time candidate to the end of
\* the file
Remaining == Len(file.content) - CandidateStart

\* C30: the time candidate starts with 'D:', so the time is never the first
\* 15 bytes of the candidate: with at least 15 bytes from the match to the
\* end of the file it is the reformatted value of 19 bytes, otherwise it is
\* the 5 to 14 bytes that remain, which start with 'D:20'.
C30_NeverFirstFifteen ==
  RecordsBuilt =>
    LET start == CandidateStart
        cand == CandidateFrom(start)
        left == Len(file.content) - start
    IN  \A i \in 1..Len(info.Signatures) :
          (info.Signatures[i].HasTimestamp /\ start # -1) =>
            LET time == info.Signatures[i].TimestampTime
            IN  /\ SubSeq(cand, 1, 2) = <<"D", ":">>
                /\ left >= 15 =>
                     /\ Len(time) = 19
                     /\ time[5] = "-" /\ time[8] = "-" /\ time[11] = " "
                     /\ time[14] = ":" /\ time[17] = ":"
                     /\ SubSeq(time, 1, 4) = SubSeq(cand, 3, 6)
                     /\ time # SubSeq(cand, 1, 15)
                /\ left < 15 =>
                     /\ time = SubSeq(file.content, start + 1, Len(file.content))
                     /\ Len(time) \in 5..14
                     /\ SubSeq(time, 1, 4) = <<"D", ":", "2", "0">>

\* a file that ends 6 bytes after the start of 'D:2019': the time is 'D:2019'
C30_Witness ==
  /\ RecordsBuilt
  /\ info.Signatures[1].HasTimestamp
  /\ CandidateStart # -1
  /\ Remaining = 6
  /\ info.Signatures[1].TimestampTime = <<"D", ":", "2", "0", "1", "9">>

=============================================================================
